---- MODULE Spec2Model ----
(***************************************************************************)
(* Model of the Gmail/OpenAI draft generator: the resumable batch cursor   *)
(* (progress file), the row extractor, the per-recipient generate /        *)
(* compose / build / dispatch / sleep loop and its error handling, for the *)
(* four program variants of the repository:                                *)
(*   "main"      src/main.go                       (maxDrafts 30)          *)
(*   "part_000"  src/unnamed/part_000              (maxDrafts 25)          *)
(*   "part_001a" src/unnamed/part_001 lines 1-490  (mode, two templates)   *)
(*   "part_001b" src/unnamed/part_001 lines 492-855 (generateEmail)        *)
(* Strings are sequences of symbols: one-character strings for the text    *)
(* the code inspects (cells, the progress file) and whole literals for the *)
(* fixed template text the code only concatenates.                         *)
(***************************************************************************)
EXTENDS Integers, Sequences, FiniteSets, TLC

(* ------------------------------ bounds -------------------------------- *)
\* maxDrafts is 25 (part_000) and 30 (the other variants) in the source; the
\* model keeps the order of the two and scales them down so that a window is
\* shorter than a sheet.
MaxDraftsSmall == 2
MaxDraftsLarge == 3
\* the longest sheet (rows, header included)
MaxRows == 5
\* how many entries of the subject list getRandomSubject may draw
MaxSubjectIdx == 2
\* longest cell of the exhaustive row specification
MaxCellLen == 3
\* longest attachment, in bytes, of the behaviours that vary the attachment
MaxBytes == 120

(* ------------------------------ strings ------------------------------- *)
Digits == <<"0", "1", "2", "3", "4", "5", "6", "7", "8", "9">>

IsDigit(c) == \E k \in 1..10 : Digits[k] = c

DigitVal(c) == (CHOOSE k \in 1..10 : Digits[k] = c) - 1

\* unicode.IsSpace on the symbols of the model
IsSpace(c) == c \in {" ", "\t", "\n", "\r"}

RECURSIVE TrimLeft(_)
TrimLeft(s) ==
  IF s # <<>> /\ IsSpace(Head(s)) THEN TrimLeft(Tail(s)) ELSE s

RECURSIVE TrimRight(_)
TrimRight(s) ==
  IF s # <<>> /\ IsSpace(s[Len(s)]) THEN TrimRight(SubSeq(s, 1, Len(s) - 1)) ELSE s

\* strings.TrimSpace
TrimSpace(s) == TrimRight(TrimLeft(s))

\* strings.Index for a one-symbol separator, 0 when absent (1-based otherwise)
Index(s, c) ==
  IF \E k \in 1..Len(s) : s[k] = c
  THEN CHOOSE k \in 1..Len(s) : s[k] = c /\ \A j \in 1..(k - 1) : s[j] # c
  ELSE 0

\* strings.SplitN(s, sep, 2)
SplitN2(s, sep) ==
  IF Index(s, sep) = 0 THEN <<s>>
  ELSE <<SubSeq(s, 1, Index(s, sep) - 1), SubSeq(s, Index(s, sep) + 1, Len(s))>>

\* s contains t as a contiguous substring (strings.Contains)
Contains(s, t) ==
  \E k \in 0..(Len(s) - Len(t)) : SubSeq(s, k + 1, k + Len(t)) = t

RECURSIVE NatToStr(_)
NatToStr(n) ==
  IF n < 10 THEN <<Digits[n + 1]>>
  ELSE NatToStr(n \div 10) \o <<Digits[(n % 10) + 1]>>

\* fmt.Sprintf("%d", n)
Sprintf_d(n) == IF n < 0 THEN <<"-">> \o NatToStr(0 - n) ELSE NatToStr(n)

RECURSIVE DigitRun(_)
\* the longest prefix of s made of digits (ss.scanNumber)
DigitRun(s) ==
  IF s # <<>> /\ IsDigit(Head(s)) THEN <<Head(s)>> \o DigitRun(Tail(s)) ELSE <<>>

RECURSIVE ParseNat(_, _)
ParseNat(s, acc) ==
  IF s = <<>> THEN acc ELSE ParseNat(Tail(s), acc * 10 + DigitVal(Head(s)))

RECURSIVE SkipBlanks(_)
\* ss.SkipSpace of Sscanf: blanks are skipped, a newline is an error and is
\* left in place for the caller to stumble on
SkipBlanks(s) ==
  IF s # <<>> /\ Head(s) \in {" ", "\t"} THEN SkipBlanks(Tail(s)) ELSE s

\* fmt.Sscanf(string(data), "%d", &savedIndex): leading blanks are skipped,
\* one optional sign is accepted, at least one digit is required, and the
\* text after the digits is not looked at.
Sscanf_d(data) ==
  LET a == SkipBlanks(data)
      signed == a # <<>> /\ Head(a) \in {"+", "-"}
      b == IF signed THEN Tail(a) ELSE a
      ds == DigitRun(b)
  IN IF ds = <<>> THEN [ok |-> FALSE, val |-> 0]
     ELSE [ok |-> TRUE,
           val |-> IF signed /\ Head(a) = "-" THEN 0 - ParseNat(ds, 0)
                   ELSE ParseNat(ds, 0)]

(* ------------------------- program constants -------------------------- *)
Variants == {"main", "part_000", "part_001a", "part_001b"}

\* the variants whose main() reads a mode argument
HasMode(v) == v \in {"part_001a", "part_001b"}

\* const maxDrafts of each variant (25 < 30 in the source)
maxDrafts(v) == IF v = "part_000" THEN MaxDraftsSmall ELSE MaxDraftsLarge

\* const sheetName of each variant
sheetName(v) ==
  CASE v = "main" -> "UESTC"
    [] v = "part_000" -> "USTC"
    [] v = "part_001a" -> "UCAS"
    [] v = "part_001b" -> "UESTC"

followUpSheetName == "ZJU"

followUpSchoolName == <<"Zhejiang University">>

schoolName(v) ==
  CASE v = "main" -> <<"School of Information and Software Engineering, UESTC">>
    [] v = "part_000" -> <<>>
    [] v = "part_001a" -> <<"University of Chinese Academy of Sciences">>
    [] v = "part_001b" -> <<"University of Electronic Science and Technology of China (UESTC)">>

scholarshipType(v) ==
  IF v = "part_001a" THEN <<"ANSO Scholarship ">> ELSE <<"CSC Scholarship">>

\* sheet := sheetName; if mode == "followup" { sheet = followUpSheetName }
SheetOf(v, m) ==
  IF HasMode(v) /\ m = "followup" THEN followUpSheetName ELSE sheetName(v)

\* one progress file for both modes
ProgressFileOf_fixed(v, m) == <<"progress.txt">>

\* progressFile of a run, a file name as the list of its concatenated parts
ProgressFileOf(v, m) ==
  IF ~HasMode(v) THEN <<"progress.txt">>
  ELSE IF m = "followup" THEN <<"followUpProgress.txt">>
  ELSE <<SheetOf(v, m), "Progress.txt">>

\* the mode with the argument compared without regard to case
ModeOf_foldCase(args) ==
  IF Len(args) > 0 /\ args[1] \in {"followup", "Followup"} THEN "followup"
  ELSE "initial"

\* mode := "initial"; if len(os.Args) > 1 && (os.Args[1] == "followup" ||
\* os.Args[1] == "initial") { mode = os.Args[1] }.  args are the positional
\* arguments (os.Args[1:]).
ModeOf(args) ==
  IF Len(args) > 0 /\ (args[1] = "followup" \/ args[1] = "initial")
  THEN args[1] ELSE "initial"

(* --------------------------- the row extractor ------------------------ *)
NoRecipient == [ok |-> FALSE, name |-> <<>>, email |-> <<>>, research |-> <<>>]

\* the row checks without the TrimSpace of the two parts of the split
ExtractRecipient_untrimmed(row) ==
  IF Len(row) < 3 THEN NoRecipient
  ELSE LET profInfo == TrimSpace(row[2])
           research == TrimSpace(row[3])
       IN IF profInfo = <<>> \/ research = <<>> THEN NoRecipient
          ELSE LET parts == SplitN2(profInfo, ":")
               IN IF Len(parts) < 2 THEN NoRecipient
                  ELSE IF parts[1] = <<>> \/ parts[2] = <<>> THEN NoRecipient
                  ELSE [ok |-> TRUE, name |-> parts[1], email |-> parts[2],
                        research |-> research]

\* lines 106-126 of src/main.go: the checks one row goes through, in order
ExtractRecipient(row) ==
  IF Len(row) < 3 THEN NoRecipient
  ELSE LET profInfo == TrimSpace(row[2])
           research == TrimSpace(row[3])
       IN IF profInfo = <<>> \/ research = <<>> THEN NoRecipient
          ELSE LET parts == SplitN2(profInfo, ":")
               IN IF Len(parts) < 2 THEN NoRecipient
                  ELSE LET name == TrimSpace(parts[1])
                           email == TrimSpace(parts[2])
                       IN IF name = <<>> \/ email = <<>> THEN NoRecipient
                          ELSE [ok |-> TRUE, name |-> name, email |-> email,
                                research |-> research]

(* ------------------------ generation and composition ------------------ *)
\* what CreateChatCompletion can hand back: an error, a response without
\* choices, or a response whose first choice has the given content
Responses ==
  { [err |-> TRUE, choices |-> <<>>],
    [err |-> FALSE, choices |-> <<>>],
    [err |-> FALSE, choices |-> << <<" ", "topic text", "\n">> >>],
    [err |-> FALSE, choices |-> << <<" ">> >>] }

\* generateResearchParagraph (main.go, part_000) and generateResearchParagraph0
\* (part_001a): (text, error)
generateResearchParagraph(resp) ==
  IF resp.err THEN [text |-> <<>>, err |-> "api error"]
  ELSE IF Len(resp.choices) = 0 THEN [text |-> <<>>, err |-> "no choices returned"]
  ELSE [text |-> TrimSpace(resp.choices[1]), err |-> "nil"]

\* the fallback paragraph of the caller (main.go line 131)
Fallback(research) ==
  <<"Your research on ">> \o research
    \o <<" strongly aligns with my academic background and interests.">>

\* getRelevantTopics (part_001a): the topics, "" on every failure
getRelevantTopics(resp) ==
  IF resp.err THEN <<>>
  ELSE IF Len(resp.choices) = 0 THEN <<>>
  ELSE TrimSpace(resp.choices[1])

\* generateEmailBody of main.go and of part_000: (subject, body)
generateEmailBody(v, profName, researchPara) ==
  IF v = "part_000"
  THEN [subject |-> <<"Request for Master's Supervision">>,
        body |-> <<"Dear Professor ">> \o profName
                 \o <<",\n\nI hope this message finds you well. ...\n\n">>
                 \o researchPara
                 \o <<"\n\nIf you are currently considering graduate students ...\n">>]
  ELSE [subject |-> <<"Request for Master's Supervision (September 2026 Intake)">>,
        body |-> <<"\n<html>\n<body>\nDear Professor ">> \o profName
                 \o <<",<br><br>\n\nI hope you are in a good health. ... at the ">>
                 \o schoolName(v)
                 \o <<"</b> via the <b>Chinese Government Scholarship (CSC) 2026</b>.<br><br>\n\n">>
                 \o researchPara
                 \o <<"<br><br>\n\nIf you are accepting new students, ...</body>\n</html>\n">>]

\* generateEmailBody1 of part_001a
generateEmailBody1(v, profName, researchPara) ==
  [subject |-> <<"Request for Master's Supervision (September 2026 Intake)">>,
   body |-> <<"\n\t<html> <body> Respected Professor ">> \o profName
            \o <<",<br><br> \n\tI hope you are fine and good. ... of <b>">>
            \o researchPara
            \o <<"</b>. I would be eager to explore ... I plan to apply for the ">>
            \o scholarshipType(v)
            \o <<" or any equivalent scholarship ... </body> \n\t</html>\n\t">>]

\* generateFollowupEmailBody of part_001a
generateFollowupEmailBody(professorName, universityName, topics) ==
  LET topicLine ==
        IF topics # <<>>
        THEN <<"<p>I'm particularly interested in your research on <strong>">>
             \o topics \o <<"</strong>, and I believe my background ...</p>">>
        ELSE <<"<p>I remain deeply interested in your ongoing research directions.</p>">>
  IN <<"\n<html>\n<body>\n<p>Dear Professor ">> \o professorName
     \o <<",</p>\n\n<p>I hope you are doing well. ... research group at <strong>">>
     \o universityName \o <<"</strong>.</p>\n\n">> \o topicLine
     \o <<"\n\n<p>I'm eager to contribute ...</p>\n</body>\n</html>\n">>

\* the subjects of getRandomSubject (part_001b), in the order of the source
subjects ==
  << <<"Request for Master's Supervision (September 2026 Intake)">>,
     <<"Prospective Master's Student Interested in Your Research (2026 Intake)">>,
     <<"Supervision Inquiry for Master's Program (Fall 2026)">>,
     <<"Seeking Master's Supervision at Your Research Group (2026)">>,
     <<"Application for Master's Supervision - September 2026">>,
     <<"Interest in Joining Your Research Group for Master's 2026">>,
     <<"Inquiry Regarding Master's Supervision (2026 Admission)">>,
     <<"Exploring Master's Research Opportunities with You (2026)">>,
     <<"Request to Pursue Master's Studies Under Your Guidance (2026)">>,
     <<"Potential Master's Student Interested in Your Research Work">> >>

\* the indices r.Intn(len(subjects)) may return, cut at MaxSubjectIdx
SubjectDraws == {k \in 1..Len(subjects) : k <= MaxSubjectIdx}

\* getRandomSubject with the drawn index made explicit
getRandomSubject(k) == subjects[k]

\* generateEmail of part_001b: (subject, body, err).  The failure branch
\* returns err itself, which is nil when the response has no choices.
generateEmail(v, resp, k, profName, researchText, mode) ==
  IF resp.err \/ Len(resp.choices) = 0
  THEN [subject |-> <<>>, body |-> <<>>,
        err |-> IF resp.err THEN "api error" ELSE "nil"]
  ELSE LET trimmed == TrimSpace(resp.choices[1])
           researchTopics ==
             IF trimmed = <<>> THEN <<"computer science and related technologies">>
             ELSE trimmed
           intro ==
             IF mode = "followup"
             THEN <<"\nRespected Professor ">> \o profName
                  \o <<",<br><br>\nI hope you are doing well. I wanted to kindly follow up ...">>
             ELSE <<"\nRespected Professor ">> \o profName
                  \o <<",<br><br>\nI hope you are doing well.">>
       IN [subject |-> getRandomSubject(k),
           body |-> <<"\n<html>\n<body>\n">> \o intro
                    \o <<"<br><br>\n\nI am <b>Usama Shoukat</b> ... your work in <b>">>
                    \o researchTopics
                    \o <<"</b>.\nI find your research directions highly relevant ...<br><br>\n\n">>
                    \o <<"\nMy intended research plan involves ...\n">>
                    \o <<"<br><br>\n\nI am highly motivated ... apply for the <b>">>
                    \o scholarshipType(v)
                    \o <<"</b>\n(or any equivalent scholarship ...</body>\n</html>\n">>,
           err |-> "nil"]

(* ------------------------------ the MIME builder ----------------------- *)
attachmentPath == <<"UsamaShoukatCV.pdf">>

boundary == "BOUNDARY123"

\* base64.URLEncoding.EncodeToString of the assembled document, kept as an
\* opaque wrapping of the document (no claim of this model looks inside it)
URLEncodeToString(doc) == <<"base64url[">> \o doc \o <<"]">>

\* the alphabet of base64.StdEncoding
encodeStd ==
  << "A", "B", "C", "D", "E", "F", "G", "H", "I", "J", "K", "L", "M",
     "N", "O", "P", "Q", "R", "S", "T", "U", "V", "W", "X", "Y", "Z",
     "a", "b", "c", "d", "e", "f", "g", "h", "i", "j", "k", "l", "m",
     "n", "o", "p", "q", "r", "s", "t", "u", "v", "w", "x", "y", "z",
     "0", "1", "2", "3", "4", "5", "6", "7", "8", "9", "+", "/" >>

\* the character of a 6-bit value
Enc(n) == encodeStd[n + 1]

RECURSIVE EncodeToString(_)
\* base64.StdEncoding.EncodeToString: 3 bytes give 4 characters, a rest of
\* 1 or 2 bytes gives 2 or 3 characters and padding
EncodeToString(src) ==
  IF Len(src) = 0 THEN <<>>
  ELSE IF Len(src) = 1
  THEN <<Enc(src[1] \div 4), Enc((src[1] % 4) * 16), "=", "=">>
  ELSE IF Len(src) = 2
  THEN <<Enc(src[1] \div 4), Enc((src[1] % 4) * 16 + src[2] \div 16),
         Enc((src[2] % 16) * 4), "=">>
  ELSE <<Enc(src[1] \div 4), Enc((src[1] % 4) * 16 + src[2] \div 16),
         Enc((src[2] % 16) * 4 + src[3] \div 64), Enc(src[3] % 64)>>
       \o EncodeToString(SubSeq(src, 4, Len(src)))

\* the width of a line of the attachment part
LineWidth == 76

RECURSIVE WriteLines_inclusive(_, _)
\* the loop with i <= len(encoded) as its condition
WriteLines_inclusive(encoded, i) ==
  IF i <= Len(encoded)
  THEN LET end == IF i + LineWidth > Len(encoded) THEN Len(encoded) ELSE i + LineWidth
       IN <<SubSeq(encoded, i + 1, end) \o <<"\r\n">> >>
          \o WriteLines_inclusive(encoded, i + LineWidth)
  ELSE <<>>

RECURSIVE WriteLines_skip(_, _)
\* the loop with a step one larger than the width of a line
WriteLines_skip(encoded, i) ==
  IF i < Len(encoded)
  THEN LET end == IF i + LineWidth > Len(encoded) THEN Len(encoded) ELSE i + LineWidth
       IN <<SubSeq(encoded, i + 1, end) \o <<"\r\n">> >>
          \o WriteLines_skip(encoded, i + LineWidth + 1)
  ELSE <<>>

RECURSIVE WriteLines(_, _)
\* for i := 0; i < len(encoded); i += 76 { ... encoded[i:end] + "\r\n" }:
\* the strings written from index i on, one per turn
WriteLines(encoded, i) ==
  IF i < Len(encoded)
  THEN LET end == IF i + LineWidth > Len(encoded) THEN Len(encoded) ELSE i + LineWidth
       IN <<SubSeq(encoded, i + 1, end) \o <<"\r\n">> >>
          \o WriteLines(encoded, i + LineWidth)
  ELSE <<>>

RECURSIVE Flatten(_)
\* msg after the WriteString calls of the loop
Flatten(lines) ==
  IF lines = <<>> THEN <<>> ELSE lines[1] \o Flatten(Tail(lines))

\* what strings.ReplaceAll(x, "\n", "<br>") makes of one symbol of a body:
\* a line feed, and the pieces of the template of part_000 that hold some
Br(sym) ==
  CASE sym = "\n" -> "<br>"
    [] sym = ",\n\nI hope this message finds you well. ...\n\n"
         -> ",<br><br>I hope this message finds you well. ...<br><br>"
    [] sym = "\n\nIf you are currently considering graduate students ...\n"
         -> "<br><br>If you are currently considering graduate students ...<br>"
    [] OTHER -> sym

\* strings.ReplaceAll(plainBody, "\n", "<br>")
ReplaceAll_br(plainBody) == [k \in 1..Len(plainBody) |-> Br(plainBody[k])]

\* the text/html part of buildRawEmail: the delimiter, the header of the
\* part, an empty line, then
\*   main.go 271, part_001 424 and 793: plainBody + "\r\n"
\*   part_000 257-258: "<html><body>" + ReplaceAll(plainBody, "\n", "<br>")
\*                      + "</body></html>\r\n" + "\r\n"
htmlPart(v, plainBody) ==
  <<"--", boundary, "\r\n", "Content-Type: text/html; charset=utf-8\r\n\r\n">>
    \o (IF v = "part_000"
        THEN <<"<html><body>">> \o ReplaceAll_br(plainBody)
             \o <<"</body></html>", "\r\n", "\r\n">>
        ELSE plainBody \o <<"\r\n">>)

\* buildRawEmail: (raw, err).  att is what os.ReadFile(attachmentFile) gave:
\* [ok, data], data being the bytes of the attachment.
buildRawEmail(v, to, subject, plainBody, att) ==
  IF ~att.ok THEN [raw |-> <<>>, err |-> "read attachment"]
  ELSE [raw |-> URLEncodeToString(
                  <<"To: ">> \o to \o <<"\r\n", "Subject: ">> \o subject
                  \o <<"\r\n", "MIME-Version: 1.0\r\n",
                       "Content-Type: multipart/mixed; boundary=", boundary, "\r\n",
                       "\r\n">>
                  \o htmlPart(v, plainBody)
                  \o <<"--", boundary, "\r\n",
                       "Content-Type: application/pdf; name=\"UsamaShoukatCV.pdf\"\r\n",
                       "Content-Transfer-Encoding: base64\r\n",
                       "Content-Disposition: attachment; filename=\"UsamaShoukatCV.pdf\"\r\n\r\n">>
                  \o Flatten(WriteLines(EncodeToString(att.data), 0))
                  \o <<"--", boundary, "--">>),
        err |-> "nil"]

(* ------------------------------ the cursor ----------------------------- *)
\* LoadStart that begins one row before the saved index
LoadStart_overlap(file) ==
  IF file.exists /\ Sscanf_d(file.data).ok
  THEN (IF Sscanf_d(file.data).val > 1 THEN Sscanf_d(file.data).val - 1
        ELSE Sscanf_d(file.data).val)
  ELSE 1

\* LoadStart with the result of Sscanf not looked at
LoadStart_unchecked(file) == IF file.exists THEN Sscanf_d(file.data).val ELSE 1

\* lines 71-78: startIndex := 1, replaced by the saved index when the file
\* can be read and Sscanf finds an integer.  file is [exists, data].
LoadStart(file) ==
  IF file.exists /\ Sscanf_d(file.data).ok THEN Sscanf_d(file.data).val ELSE 1

\* NewProgress cut one row before len(rows)
NewProgress_short(endIndex, nrows) == IF endIndex > nrows THEN nrows - 1 ELSE endIndex

\* NewProgress without the cut at len(rows)
NewProgress_noClamp(endIndex, nrows) == endIndex

\* lines 147-150: newProgress := endIndex, cut at len(rows)
NewProgress(endIndex, nrows) == IF endIndex > nrows THEN nrows ELSE endIndex

(* ------------------------------ inputs --------------------------------- *)
\* rows a sheet can hold: <<column 0, column 1 ("Name:Email"), column 2
\* (research text), ...>>, cells being strings of one-character symbols
RowPool ==
  << << <<"N", "o">>, <<"N", ":", "E">>, <<"R">> >>,
     << <<"1">>, <<"a", ":", "b">>, <<"r">> >>,
     << <<"2">>, <<" ", "c", " ", ":", " ", "d", ":", "e", " ">>, <<" ", "s", " ">> >>,
     << <<"3">>, <<"f", ":", "g">>, <<"t">>, <<"x">> >>,
     << <<"4">>, <<"k", ":", "l">>, <<"u">> >>,
     << <<"5">>, <<"v", ":", "w">>, <<"y">> >>,
     << <<"N", "o">>, <<"N", "a", "m", "e">>, <<"R">> >>,
     << <<"6">>, <<"h", ":", "i">> >>,
     << <<"7">>, <<"m", ":", "n">>, <<"r">> >>,
     << <<"8">>, <<" ", ":", "j">>, <<"r">> >>,
     << >>,
     << <<"9">>, <<"o", ":", "p">>, <<"z">> >> >>

\* where the sheets of the model start in the row pool: a sheet whose rows
\* all give a recipient, and two sheets that mix them with rows that do not
Offsets == {0, 3, 6}

\* the sheet of n rows that starts at entry off of the (cyclic) row pool
SheetAt(off, n) == [k \in 1..n |-> RowPool[((off + k - 1) % Len(RowPool)) + 1]]

SheetPool == {SheetAt(off, n) : off \in Offsets, n \in 0..MaxRows}

\* the follow-up sheet of the workbook, when it has one
FollowSheet == SheetAt(0, 3)

NoFile == [exists |-> FALSE, data |-> <<>>]

FileOf(data) == [exists |-> TRUE, data |-> data]

\* what the progress file can hold when a behaviour begins
CursorPool ==
  { NoFile, FileOf(<<"x">>), FileOf(<<"0">>), FileOf(<<"2">>),
    FileOf(<<"1", "2">>), FileOf(<<"-", "4">>),
    FileOf(<<"2", "x">>), FileOf(<<" ", "3">>), FileOf(<<"\n", "2">>) }

\* positional arguments of a run
ArgsPool ==
  { <<>>, <<"initial">>, <<"followup">>, <<"Followup">>,
    <<"followup", "x">>, <<"x", "followup">> }

\* the bytes of a small attachment: "%PDF"
SmallPdf == <<37, 80, 68, 70>>

\* what os.ReadFile(attachmentFile) can give: an error, or the bytes of the
\* file when there is one
Attachments(fs) ==
  { [ok |-> FALSE, data |-> <<>>] }
  \cup (IF fs[attachmentPath].exists
        THEN { [ok |-> TRUE, data |-> fs[attachmentPath].data] }
        ELSE {})

\* outcomes of os.WriteFile: done, not opened (file untouched), opened and
\* truncated but not written
WriteOutcomes == {"ok", "open failed", "write failed"}

Procs == {1, 2}

(* ------------------------------ state ---------------------------------- *)
VARIABLES
  variant,   \* which program of the repository runs
  workbook,  \* professors.xlsx: sheet name -> rows
  files,     \* the progress files: name -> [exists, data]
  inst       \* per program instance: position and locals of main/generateDrafts

vars == <<variant, workbook, files, inst>>

\* the history of the runs of an instance, kept when on: saved: no write of
\* the progress file has failed, setup: no run has ended with an error,
\* seen[k + 1]: in how many complete runs row k was examined (2: twice or
\* more), runs: whether a run has completed
NoHist == [on |-> FALSE, saved |-> TRUE, setup |-> TRUE, seen |-> <<>>, runs |-> FALSE]

\* the locals of an instance that has not been started
Fresh ==
  [ pc |-> "idle", key |-> FALSE, mode |-> "initial",
    sheet |-> "", progressFile |-> <<>>, rows |-> <<>>,
    startIndex |-> 1, endIndex |-> 1, i |-> 0, count |-> 0,
    rcp |-> NoRecipient, subject |-> <<>>, body |-> <<>>,
    raw |-> <<>>, err |-> "nil", trace |-> <<>>,
    examined |-> <<>>, genRows |-> <<>>, draftRows |-> <<>>, skipRows |-> <<>>,
    sleepRows |-> <<>>,
    genFailed |-> FALSE, buildFailed |-> FALSE, apiFailed |-> FALSE,
    reads |-> <<>>, writes |-> <<>>, files0 |-> << >>,
    hist |-> NoHist ]

CursorFiles(v) ==
  IF HasMode(v) THEN {ProgressFileOf(v, "initial"), ProgressFileOf(v, "followup")}
  ELSE {ProgressFileOf(v, "initial")}

Workbooks(v) ==
  IF HasMode(v)
  THEN {[n \in {sheetName(v)} |-> FollowSheet]}
       \cup {[n \in {sheetName(v), followUpSheetName} |->
                IF n = followUpSheetName THEN FollowSheet ELSE s] : s \in SheetPool}
  ELSE {[n \in {sheetName(v)} |-> s] : s \in SheetPool}

InitEnv ==
  /\ variant \in Variants
  /\ workbook \in Workbooks(variant)
  /\ \E c \in CursorPool :
       files = [f \in CursorFiles(variant) \cup {attachmentPath} |->
                  IF f = attachmentPath THEN FileOf(SmallPdf)
                  ELSE IF f = ProgressFileOf(variant, "initial") THEN c ELSE NoFile]

\* one instance; the second one is never started
Init ==
  /\ InitEnv
  /\ inst = [p \in Procs |-> IF p = 1 THEN Fresh ELSE [Fresh EXCEPT !.pc = "off"]]

(* ------------------------------ operations ----------------------------- *)
Ev(op, res) == [op |-> op, res |-> res, arg |-> <<>>]

\* log.Fatal / a returned error printed by log.Fatalf: the process ends
Fatal(st, e) == [st EXCEPT !.pc = "fatal", !.err = e]

\* main() up to the call of generateDrafts: load .env, require the API key,
\* pick the mode
main(v, args, envOk, keySet, fs) ==
  LET base == [Fresh EXCEPT !.trace = <<[op |-> "main", res |-> "ok", arg |-> args]>>, !.files0 = fs]
      loaded == [base EXCEPT !.trace = base.trace \o <<Ev("godotenv.Load", "ok")>>]
  IN IF ~envOk
     THEN Fatal([base EXCEPT !.trace = base.trace \o <<Ev("godotenv.Load", "error")>>],
                "Error loading .env file")
     ELSE IF ~keySet
     THEN Fatal([loaded EXCEPT !.trace = loaded.trace \o <<Ev("OPENAI_API_KEY", "error")>>],
                "OPENAI_API_KEY not set")
     ELSE [loaded EXCEPT !.pc = "open", !.key = TRUE,
                         !.trace = loaded.trace \o <<Ev("OPENAI_API_KEY", "ok")>>,
                         !.mode = IF HasMode(v) THEN ModeOf(args) ELSE "initial"]

\* the history with the run that st has ended added to it
Fold(st) ==
  IF ~st.hist.on \/ st.pc \notin {"done", "fatal"} THEN st.hist
  ELSE IF st.pc = "fatal" THEN [st.hist EXCEPT !.setup = FALSE]
  ELSE [st.hist EXCEPT
          !.saved = st.hist.saved /\ \A k \in 1..Len(st.writes) : st.writes[k].outcome = "ok",
          !.runs = TRUE,
          !.seen = [k \in 1..Len(st.rows) |->
                      LET before == IF k <= Len(st.hist.seen) THEN st.hist.seen[k] ELSE 0
                          now == IF \E j \in 1..Len(st.examined) : st.examined[j] = k - 1
                                 THEN 1 ELSE 0
                      IN IF before + now > 2 THEN 2 ELSE before + now]]

\* a program instance is started (again)
Main(p) ==
  /\ inst[p].pc \in {"idle", "done", "fatal"}
  /\ \E args \in (IF HasMode(variant) THEN ArgsPool ELSE {<<>>}),
        envOk \in BOOLEAN, keySet \in BOOLEAN :
       inst' = [inst EXCEPT ![p] = [main(variant, args, envOk, keySet, files)
                                      EXCEPT !.hist = Fold(inst[p])]]
  /\ UNCHANGED <<variant, workbook, files>>

\* generateDrafts, opening: excelize.OpenFile, GetRows(sheet), len(rows) <= 1
openRows(v, st, openOk, wb) ==
  LET sheet == SheetOf(v, st.mode)
      opened == [st EXCEPT !.sheet = sheet,
                           !.trace = st.trace \o <<Ev("OpenFile", "ok")>>]
  IN IF ~openOk
     THEN Fatal([st EXCEPT !.trace = st.trace \o <<Ev("OpenFile", "error")>>], "open excel")
     ELSE IF sheet \notin DOMAIN wb
     THEN Fatal([opened EXCEPT !.trace = opened.trace \o <<Ev("GetRows", "error")>>],
                "read rows")
     ELSE IF Len(wb[sheet]) <= 1
     THEN Fatal([opened EXCEPT !.rows = wb[sheet],
                               !.trace = opened.trace \o <<Ev("GetRows", "ok"),
                                                            Ev("data rows", "error")>>],
                "no data rows found")
     ELSE [opened EXCEPT !.pc = "load", !.rows = wb[sheet],
                         !.trace = opened.trace \o <<Ev("GetRows", "ok"),
                                                      Ev("data rows", "ok")>>,
                         !.progressFile = ProgressFileOf(v, st.mode)]

OpenExcel(p) ==
  /\ inst[p].pc = "open"
  /\ \E openOk \in BOOLEAN :
       inst' = [inst EXCEPT ![p] = openRows(variant, inst[p], openOk, workbook)]
  /\ UNCHANGED <<variant, workbook, files>>

\* loadProgress with a window of twice the batch size
loadProgress_doubleWindow(v, st, file) ==
  [st EXCEPT !.pc = "auth",
             !.startIndex = LoadStart(file),
             !.endIndex = LoadStart(file) + 2 * maxDrafts(v),
             !.reads = Append(st.reads, st.progressFile),
             !.trace = st.trace \o <<Ev("ReadFile", IF file.exists THEN "ok" ELSE "error")>>]

\* generateDrafts, the progress file is read: startIndex and endIndex
loadProgress(v, st, file) ==
  [st EXCEPT !.pc = "auth",
             !.startIndex = LoadStart(file),
             !.endIndex = LoadStart(file) + maxDrafts(v),
             !.reads = Append(st.reads, st.progressFile),
             !.trace = st.trace \o <<Ev("ReadFile", IF file.exists THEN "ok" ELSE "error")>>]

LoadProgress(p) ==
  /\ inst[p].pc = "load"
  /\ inst' = [inst EXCEPT ![p] = loadProgress(variant, inst[p], files[inst[p].progressFile])]
  /\ UNCHANGED <<variant, workbook, files>>

\* setup that drops the error of getGmailService
setup_ignoreError(st, gmailOk) ==
  IF ~st.key
  THEN Fatal([st EXCEPT !.trace = st.trace \o <<Ev("getGmailService", "ok"),
                                                 Ev("OPENAI_API_KEY", "error")>>],
             "OPENAI_API_KEY not set")
  ELSE [st EXCEPT !.pc = "loop", !.i = 0, !.count = 0,
                  !.trace = st.trace
                            \o <<Ev("getGmailService", IF gmailOk THEN "ok" ELSE "error")>>]

\* generateDrafts, Gmail + OpenAI setup: getGmailService, the API key again
setup(st, gmailOk) ==
  IF ~gmailOk
  THEN Fatal([st EXCEPT !.trace = st.trace \o <<Ev("getGmailService", "error")>>],
             "gmail auth")
  ELSE IF ~st.key
  THEN Fatal([st EXCEPT !.trace = st.trace \o <<Ev("getGmailService", "ok"),
                                                 Ev("OPENAI_API_KEY", "error")>>],
             "OPENAI_API_KEY not set")
  ELSE [st EXCEPT !.pc = "loop", !.i = 0, !.count = 0,
                  !.trace = st.trace \o <<Ev("getGmailService", "ok")>>]

Setup(p) ==
  /\ inst[p].pc = "auth"
  /\ \E gmailOk \in BOOLEAN : inst' = [inst EXCEPT ![p] = setup(inst[p], gmailOk)]
  /\ UNCHANGED <<variant, workbook, files>>

\* loopStep whose lower bound is off by one (i < startIndex - 1)
loopStep_lowerOff(st) ==
  LET turn == [st EXCEPT !.trace = <<>>]
  IN IF st.i >= Len(st.rows) THEN [turn EXCEPT !.pc = "save"]
     ELSE IF st.i < st.startIndex - 1 THEN [turn EXCEPT !.i = st.i + 1]
     ELSE IF st.i >= st.endIndex THEN [turn EXCEPT !.pc = "save"]
     ELSE LET r == ExtractRecipient(st.rows[st.i + 1])
              seen == [turn EXCEPT !.examined = Append(st.examined, st.i)]
          IN IF ~r.ok THEN [seen EXCEPT !.i = st.i + 1]
             ELSE [seen EXCEPT !.pc = "generate", !.rcp = r]

\* the loop with the lower bound of the window off by one
loopStep_skipFirst(st) ==
  LET turn == [st EXCEPT !.trace = <<>>]
  IN IF st.i >= Len(st.rows) THEN [turn EXCEPT !.pc = "save"]
     ELSE IF st.i <= st.startIndex THEN [turn EXCEPT !.i = st.i + 1]
     ELSE IF st.i >= st.endIndex THEN [turn EXCEPT !.pc = "save"]
     ELSE LET r == ExtractRecipient(st.rows[st.i + 1])
              seen == [turn EXCEPT !.examined = Append(st.examined, st.i)]
          IN IF ~r.ok THEN [seen EXCEPT !.i = st.i + 1]
             ELSE [seen EXCEPT !.pc = "generate", !.rcp = r]

\* one turn of "for i, row := range rows" up to the generation call: the
\* range ends, the row is before the window, the window ends, the row is
\* dropped, or the row gives a recipient
loopStep(st) ==
  LET turn == [st EXCEPT !.trace = <<>>]
  IN IF st.i >= Len(st.rows) THEN [turn EXCEPT !.pc = "save"]
     ELSE IF st.i < st.startIndex THEN [turn EXCEPT !.i = st.i + 1]
     ELSE IF st.i >= st.endIndex THEN [turn EXCEPT !.pc = "save"]
     ELSE LET r == ExtractRecipient(st.rows[st.i + 1])
              seen == [turn EXCEPT !.examined = Append(st.examined, st.i)]
          IN IF ~r.ok THEN [seen EXCEPT !.i = st.i + 1]
             ELSE [seen EXCEPT !.pc = "generate", !.rcp = r]

LoopStep(p) ==
  /\ inst[p].pc = "loop"
  /\ inst' = [inst EXCEPT ![p] = loopStep(inst[p])]
  /\ UNCHANGED <<variant, workbook, files>>

RespKind(resp) ==
  IF resp.err THEN "error" ELSE IF Len(resp.choices) = 0 THEN "no choices" ELSE "ok"

\* generateStep whose callers forget the fallback paragraph
generateStep_noFallback(v, mode, rcp, resp, k) ==
  IF v = "part_001b"
  THEN LET g == generateEmail(v, resp, k, rcp.name, rcp.research, mode)
       IN [go |-> g.err = "nil", subject |-> g.subject, body |-> g.body,
           err |-> g.err, fallback |-> FALSE]
  ELSE IF v = "part_001a" /\ mode = "followup"
  THEN [go |-> TRUE,
        subject |-> <<"Follow up on Master's Supervision Request (September 2026 Intake)">>,
        body |-> generateFollowupEmailBody(rcp.name, followUpSchoolName,
                                           getRelevantTopics(resp)),
        err |-> "nil", fallback |-> FALSE]
  ELSE LET r == generateResearchParagraph(resp)
           sb == IF v = "part_001a" THEN generateEmailBody1(v, rcp.name, r.text)
                 ELSE generateEmailBody(v, rcp.name, r.text)
       IN [go |-> TRUE, subject |-> sb.subject, body |-> sb.body,
           err |-> r.err, fallback |-> r.err # "nil"]

\* the generation and composition of one recipient, by variant and mode:
\* [go: a message is handed to createDraft, subject, body, err: the error the
\* loop saw, fallback: the fallback paragraph was used]
generateStep(v, mode, rcp, resp, k) ==
  IF v = "part_001b"
  THEN LET g == generateEmail(v, resp, k, rcp.name, rcp.research, mode)
       IN [go |-> g.err = "nil", subject |-> g.subject, body |-> g.body,
           err |-> g.err, fallback |-> FALSE]
  ELSE IF v = "part_001a" /\ mode = "followup"
  THEN [go |-> TRUE,
        subject |-> <<"Follow up on Master's Supervision Request (September 2026 Intake)">>,
        body |-> generateFollowupEmailBody(rcp.name, followUpSchoolName,
                                           getRelevantTopics(resp)),
        err |-> "nil", fallback |-> FALSE]
  ELSE LET r == generateResearchParagraph(resp)
           para == IF r.err # "nil" THEN Fallback(rcp.research) ELSE r.text
           sb == IF v = "part_001a" THEN generateEmailBody1(v, rcp.name, para)
                 ELSE generateEmailBody(v, rcp.name, para)
       IN [go |-> TRUE, subject |-> sb.subject, body |-> sb.body,
           err |-> r.err, fallback |-> r.err # "nil"]

generate(v, st, resp, k) ==
  LET g == generateStep(v, st.mode, st.rcp, resp, k)
      called == [st EXCEPT !.genRows = Append(st.genRows, st.i),
                           !.genFailed = st.genFailed \/ RespKind(resp) # "ok"]
  IN IF g.go
     THEN [called EXCEPT !.pc = "draft", !.subject = g.subject, !.body = g.body,
                         !.trace = st.trace \o <<Ev("generate", RespKind(resp))>>
                                   \o (IF g.fallback THEN <<Ev("log", "fallback used")>>
                                       ELSE <<>>)
                                   \o <<Ev("compose", "ok")>>]
     ELSE [called EXCEPT !.pc = "loop", !.i = st.i + 1, !.rcp = NoRecipient,
                         !.skipRows = Append(st.skipRows, st.i),
                         !.trace = st.trace \o <<Ev("generate", RespKind(resp)),
                                                 Ev("log", "generation failed")>>]

Generate(p) ==
  /\ inst[p].pc = "generate"
  /\ \E resp \in Responses,
        k \in (IF variant = "part_001b" THEN SubjectDraws ELSE {1}) :
       inst' = [inst EXCEPT ![p] = generate(variant, inst[p], resp, k)]
  /\ UNCHANGED <<variant, workbook, files>>

\* createDraft that goes on to the mail service after a failed build
createDraft_callAnyway(v, to, subject, body, att, apiOk) ==
  LET b == buildRawEmail(v, to, subject, body, att)
  IN [err |-> IF apiOk THEN "nil" ELSE "drafts.create",
      built |-> b.err = "nil", called |-> TRUE, raw |-> b.raw]

\* createDraft: build the raw message, then Users.Drafts.Create; [err,
\* built: the message was built, called: the mail service was called, raw:
\* the message it was given]
createDraft(v, to, subject, body, att, apiOk) ==
  LET b == buildRawEmail(v, to, subject, body, att)
  IN IF b.err # "nil"
     THEN [err |-> "build email", built |-> FALSE, called |-> FALSE, raw |-> b.raw]
     ELSE [err |-> IF apiOk THEN "nil" ELSE "drafts.create", built |-> TRUE,
           called |-> TRUE, raw |-> b.raw]

\* dispatch that goes straight to the next row when the draft failed
dispatch_noDelayOnError(v, st, att, apiOk) ==
  LET d == createDraft(v, st.rcp.email, st.subject, st.body, att, apiOk)
  IN [st EXCEPT
        !.pc = IF d.err = "nil" THEN "sleep" ELSE "loop",
        !.i = IF d.err = "nil" THEN st.i ELSE st.i + 1,
        !.raw = d.raw,
        !.draftRows = Append(st.draftRows, st.i),
        !.count = st.count + (IF d.err = "nil" THEN 1 ELSE 0),
        !.buildFailed = st.buildFailed \/ ~d.built,
        !.apiFailed = st.apiFailed \/ (d.called /\ d.err # "nil"),
        !.trace = st.trace
                  \o <<Ev("createDraft", IF d.err = "nil" THEN "ok" ELSE "error"),
                       Ev("build", IF d.built THEN "ok" ELSE "error")>>
                  \o (IF d.called
                      THEN <<Ev("Drafts.Create", IF d.err = "nil" THEN "ok" ELSE "error")>>
                      ELSE <<>>)
                  \o <<Ev("log", IF d.err = "nil" THEN "draft created"
                                 ELSE "draft creation failed")>>]

\* dispatch that leaves the loop when the draft could not be created
dispatch_abort(v, st, att, apiOk) ==
  LET d == createDraft(v, st.rcp.email, st.subject, st.body, att, apiOk)
  IN [st EXCEPT
        !.pc = IF d.err = "nil" THEN "sleep" ELSE "save",
        !.raw = d.raw,
        !.draftRows = Append(st.draftRows, st.i),
        !.count = st.count + (IF d.err = "nil" THEN 1 ELSE 0),
        !.buildFailed = st.buildFailed \/ ~d.built,
        !.apiFailed = st.apiFailed \/ (d.called /\ d.err # "nil"),
        !.trace = st.trace
                  \o <<Ev("createDraft", IF d.err = "nil" THEN "ok" ELSE "error"),
                       Ev("build", IF d.built THEN "ok" ELSE "error")>>
                  \o (IF d.called
                      THEN <<Ev("Drafts.Create", IF d.err = "nil" THEN "ok" ELSE "error")>>
                      ELSE <<>>)
                  \o <<Ev("log", IF d.err = "nil" THEN "draft created"
                                 ELSE "draft creation failed")>>]

\* lines 136-141: the dispatch of one recipient and its log line
dispatch(v, st, att, apiOk) ==
  LET d == createDraft(v, st.rcp.email, st.subject, st.body, att, apiOk)
  IN [st EXCEPT
        !.pc = "sleep",
        !.raw = d.raw,
        !.draftRows = Append(st.draftRows, st.i),
        !.count = st.count + (IF d.err = "nil" THEN 1 ELSE 0),
        !.buildFailed = st.buildFailed \/ ~d.built,
        !.apiFailed = st.apiFailed \/ (d.called /\ d.err # "nil"),
        !.trace = st.trace
                  \o <<Ev("createDraft", IF d.err = "nil" THEN "ok" ELSE "error"),
                       Ev("build", IF d.built THEN "ok" ELSE "error")>>
                  \o (IF d.called
                      THEN <<Ev("Drafts.Create", IF d.err = "nil" THEN "ok" ELSE "error")>>
                      ELSE <<>>)
                  \o <<Ev("log", IF d.err = "nil" THEN "draft created"
                                 ELSE "draft creation failed")>>]

CreateDraft(p) ==
  /\ inst[p].pc = "draft"
  /\ \E att \in Attachments(files), apiOk \in BOOLEAN :
       inst' = [inst EXCEPT ![p] = dispatch(variant, inst[p], att, apiOk)]
  /\ UNCHANGED <<variant, workbook, files>>

\* the end of a turn that does not move on to the next row
sleep_sameRow(st) ==
  [st EXCEPT !.pc = "loop",
             !.rcp = NoRecipient, !.subject = <<>>, !.body = <<>>, !.raw = <<>>,
             !.sleepRows = Append(st.sleepRows, st.i),
             !.trace = st.trace \o <<Ev("sleep", "ok")>>]

\* time.Sleep(2 * time.Second), then the next turn of the loop: the locals
\* of the turn (name, email, subject, body) go out of scope
sleep(st) ==
  [st EXCEPT !.pc = "loop", !.i = st.i + 1,
             !.rcp = NoRecipient, !.subject = <<>>, !.body = <<>>, !.raw = <<>>,
             !.sleepRows = Append(st.sleepRows, st.i),
             !.trace = st.trace \o <<Ev("sleep", "ok")>>]

Sleep(p) ==
  /\ inst[p].pc = "sleep"
  /\ inst' = [inst EXCEPT ![p] = sleep(inst[p])]
  /\ UNCHANGED <<variant, workbook, files>>

\* a write that appends to the file instead of replacing its content
WriteFile_append(fs, name, data, outcome) ==
  CASE outcome = "ok" -> [fs EXCEPT ![name] = FileOf(fs[name].data \o data)]
    [] outcome = "write failed" -> [fs EXCEPT ![name] = FileOf(fs[name].data)]
    [] outcome = "open failed" -> fs

\* os.WriteFile(name, data, 0644) on the progress files
WriteFile(fs, name, data, outcome) ==
  CASE outcome = "ok" -> [fs EXCEPT ![name] = FileOf(data)]
    [] outcome = "write failed" -> [fs EXCEPT ![name] = FileOf(<<>>)]
    [] outcome = "open failed" -> fs

\* saveProgress that writes the progress file twice
saveProgress_twice(st, outcome) ==
  LET w == [file |-> st.progressFile,
            data |-> Sprintf_d(NewProgress(st.endIndex, Len(st.rows))),
            outcome |-> outcome]
  IN [st EXCEPT !.pc = "done", !.err = "nil", !.writes = st.writes \o <<w, w>>]

\* saveProgress that keeps the old start index when a recipient failed
saveProgress_heldBack(st, outcome) ==
  [st EXCEPT !.pc = "done", !.err = "nil",
             !.writes = Append(st.writes,
                               [file |-> st.progressFile,
                                data |-> IF st.genFailed \/ st.buildFailed \/ st.apiFailed
                                         THEN Sprintf_d(st.startIndex)
                                         ELSE Sprintf_d(NewProgress(st.endIndex, Len(st.rows))),
                                outcome |-> outcome])]

\* lines 146-155: the new progress index is saved, the error of the write is
\* dropped, generateDrafts returns nil
saveProgress(st, outcome) ==
  [st EXCEPT !.pc = "done", !.err = "nil",
             !.writes = Append(st.writes,
                               [file |-> st.progressFile,
                                data |-> Sprintf_d(NewProgress(st.endIndex, Len(st.rows))),
                                outcome |-> outcome])]

SaveProgress(p) ==
  /\ inst[p].pc = "save"
  /\ \E outcome \in WriteOutcomes :
       LET st == saveProgress(inst[p], outcome)
           w == st.writes[Len(st.writes)]
       IN /\ inst' = [inst EXCEPT ![p] = st]
          /\ files' = WriteFile(files, w.file, w.data, w.outcome)
  /\ UNCHANGED <<variant, workbook>>

Step(p) ==
  \/ Main(p)
  \/ OpenExcel(p)
  \/ LoadProgress(p)
  \/ Setup(p)
  \/ LoopStep(p)
  \/ Generate(p)
  \/ CreateDraft(p)
  \/ Sleep(p)
  \/ SaveProgress(p)

Next == \E p \in Procs : Step(p)

Spec == Init /\ [][Next]_vars

(* ---------------- the row checks over every small row ------------------ *)
\* the characters of a cell that the row checks tell apart
Alphabet == {"a", " ", ":"}

\* the cells of at most MaxCellLen characters
Cells == UNION {[1..m -> Alphabet] : m \in 0..MaxCellLen}

\* rows of 0 to 4 columns: every cell in column 1, and an empty, a blank and
\* a filled column 2
TestRows ==
  { <<>>, << <<"1">> >> }
  \cup { << <<"1">>, c >> : c \in Cells }
  \cup { << <<"1">>, c, r >> : c \in Cells, r \in { <<>>, <<" ">>, <<"r">> } }
  \cup { << <<"1">>, c, r, <<"x">> >> : c \in Cells, r \in { <<>>, <<"r">> } }

\* main.go on a sheet of a header, one of these rows and a row with two
\* colons in column 1; no progress file
InitRows ==
  /\ variant = "main"
  /\ \E x \in TestRows :
       workbook = [n \in {sheetName("main")} |-> <<RowPool[1], x, RowPool[3]>>]
  /\ files = [f \in CursorFiles("main") \cup {attachmentPath} |->
                IF f = attachmentPath THEN FileOf(SmallPdf) ELSE NoFile]
  /\ inst = [p \in Procs |-> IF p = 1 THEN Fresh ELSE [Fresh EXCEPT !.pc = "off"]]

SpecRows == InitRows /\ [][Next]_vars

(* ------------------- the MIME builder over attachments ---------------- *)
\* how the bytes of an attachment follow one another: byte k is
\* (g[1] * k + g[2]) % 256
Generators == { <<0, 0>>, <<37, 255>>, <<85, 1>> }

ByteSeq(n, g) == [k \in 1..n |-> (g[1] * k + g[2]) % 256]

\* attachments of 0 to MaxBytes bytes
BytePool == {ByteSeq(n, g) : n \in 0..MaxBytes, g \in Generators}

\* main.go on a sheet of a header and one recipient, no progress file, the
\* attachment file absent or holding one of these attachments
InitMime ==
  /\ variant = "main"
  /\ workbook = [n \in {sheetName("main")} |-> <<RowPool[1], RowPool[2]>>]
  /\ \E a \in {NoFile} \cup {FileOf(b) : b \in BytePool} :
       files = [f \in CursorFiles("main") \cup {attachmentPath} |->
                  IF f = attachmentPath THEN a ELSE NoFile]
  /\ inst = [p \in Procs |-> IF p = 1 THEN Fresh ELSE [Fresh EXCEPT !.pc = "off"]]

SpecMime == InitMime /\ [][Next]_vars

(* ------------- rows whose cells carry CRLF and the boundary ------------ *)
\* rows of a sheet whose cells hold line breaks and the boundary token: the
\* name with a delimiter line in it, the research text with one, the address
\* with an empty line in it, and a name with the token in the middle of it
HostileRows ==
  { << <<"1">>, <<"a", "\r\n", "--", boundary, "\r\n", "x", ":", "b">>, <<"r">> >>,
    << <<"2">>, <<"a", ":", "b">>, <<"r", "\r\n", "--", boundary, "\r\n", "s">> >>,
    << <<"3">>, <<"a", ":", "b", "\r\n", "\r\n", "x">>, <<"r">> >>,
    << <<"4">>, <<"a", "--", boundary, ":", "b">>, <<"r">> >> }

\* main.go on a sheet of a header and one of these rows
InitHostile ==
  /\ variant = "main"
  /\ \E h \in HostileRows :
       workbook = [n \in {sheetName("main")} |-> <<RowPool[1], h>>]
  /\ \E c \in CursorPool :
       files = [f \in CursorFiles("main") \cup {attachmentPath} |->
                  IF f = attachmentPath THEN FileOf(SmallPdf) ELSE c]
  /\ inst = [p \in Procs |-> IF p = 1 THEN Fresh ELSE [Fresh EXCEPT !.pc = "off"]]

SpecHostile == InitHostile /\ [][Next]_vars

(* ------------------- run after run in a fresh directory ---------------- *)
\* main.go or part_000 on a sheet with data rows, no progress file at first,
\* the history of the runs kept
InitRuns ==
  /\ variant \in {"main", "part_000"}
  /\ \E off \in Offsets, n \in 2..MaxRows :
       workbook = [s \in {sheetName(variant)} |-> SheetAt(off, n)]
  /\ files = [f \in CursorFiles(variant) \cup {attachmentPath} |->
                IF f = attachmentPath THEN FileOf(SmallPdf) ELSE NoFile]
  /\ inst = [p \in Procs |->
               IF p = 1 THEN [Fresh EXCEPT !.hist.on = TRUE]
               ELSE [Fresh EXCEPT !.pc = "off"]]

SpecRuns == InitRuns /\ [][Next]_vars

\* main.go on the sheets that mix rows with and without a recipient, no
\* progress file at first, the history of the runs kept
InitRunsFair ==
  /\ InitRuns
  /\ variant = "main"
  /\ \E off \in Offsets \ {0}, n \in 2..MaxRows :
       workbook = [s \in {sheetName(variant)} |-> SheetAt(off, n)]

\* every call of the instance returns: a step that the running instance can
\* take is taken
SpecRunsFair == InitRunsFair /\ [][Next]_vars /\ WF_vars(Step(1))

(* ------------------- two instances of the program at once -------------- *)
\* a sheet of a header and two windows of rows: the first two rows give a
\* recipient, the other rows are empty
TwoWindows(v) == SheetAt(0, 3) \o [k \in 1..(2 * maxDrafts(v) - 2) |-> <<>>]

\* part_000 started twice in one directory: the same workbook, the same
\* progress file (absent at first), the steps of the two interleaved
InitTwo ==
  /\ variant = "part_000"
  /\ workbook = [n \in {sheetName(variant)} |-> TwoWindows(variant)]
  /\ files = [f \in CursorFiles(variant) \cup {attachmentPath} |->
                IF f = attachmentPath THEN FileOf(SmallPdf) ELSE NoFile]
  /\ inst = [p \in Procs |-> Fresh]

SpecTwo == InitTwo /\ [][Next]_vars

(* ------------------------- vocabulary of the claims -------------------- *)
Min(a, b) == IF a <= b THEN a ELSE b

Rng(q) == {q[k] : k \in 1..Len(q)}

HasEv(tr, op, res) == \E k \in 1..Len(tr) : tr[k].op = op /\ tr[k].res = res

HasOp(tr, op) == \E k \in 1..Len(tr) : tr[k].op = op

RECURSIVE Ascending(_)
\* the members of a finite set of integers, in increasing order
Ascending(S) ==
  IF S = {} THEN <<>>
  ELSE LET m == CHOOSE x \in S : \A y \in S : x <= y
       IN <<m>> \o Ascending(S \ {m})

\* positions of generateDrafts after the progress file was read, after the
\* setup, and inside a run at all
AfterLoad == {"auth", "loop", "generate", "draft", "sleep", "save", "done"}

AfterSetup == {"loop", "generate", "draft", "sleep", "save", "done"}

\* the end of the window as the specification defines it
SpecEnd(st) == Min(st.startIndex + maxDrafts(variant), Len(st.rows))

\* the row indices of the window [start, end) that the sheet has
WindowRows(st) ==
  {k \in 0..(Len(st.rows) - 1) : st.startIndex <= k /\ k < SpecEnd(st)}

\* the rows of the window that give a recipient
RecipientRows(st) == {k \in WindowRows(st) : ExtractRecipient(st.rows[k + 1]).ok}

\* the value the run saved (the data handed to os.WriteFile, read as a number)
Saved(st) == Sscanf_d(st.writes[1].data).val

(* -------------------------------- C1 ----------------------------------- *)
\* C1: every run that passes setup ends by writing min(startIndex +
\* batchSize, totalRows) to its progress file, exactly once, whatever
\* generation, build or draft-creation failures its recipients had; when the
\* write is carried out that is what the file then holds.
C1_CursorAdvancesPastFailures ==
  \A p \in Procs :
    inst[p].pc = "done" =>
      /\ Len(inst[p].writes) = 1
      /\ inst[p].writes[1].file = inst[p].progressFile
      /\ inst[p].writes[1].data = Sprintf_d(SpecEnd(inst[p]))
      /\ inst[p].writes[1].outcome = "ok" =>
           files[inst[p].progressFile] = FileOf(Sprintf_d(SpecEnd(inst[p])))

\* a run in which recipients failed in all three ways and the cursor moved on
C1_Witness ==
  \E p \in Procs :
    /\ inst[p].pc = "done"
    /\ inst[p].genFailed /\ inst[p].buildFailed /\ inst[p].apiFailed
    /\ inst[p].count = 0
    /\ inst[p].writes[1].outcome = "ok"
    /\ Saved(inst[p]) = inst[p].startIndex + maxDrafts(variant)
    /\ LoadStart(files[inst[p].progressFile]) > inst[p].startIndex

(* -------------------------------- C2 ----------------------------------- *)
\* C2 as stated: the window of every run has end = min(start + batchSize,
\* totalRows) and end >= start, also when the saved start index is larger
\* than the number of rows.
C2_Original ==
  \A p \in Procs :
    inst[p].pc = "done" =>
      /\ Saved(inst[p]) = SpecEnd(inst[p])
      /\ Saved(inst[p]) >= inst[p].startIndex

\* C2, amended: the window of every run has end = min(start + batchSize,
\* totalRows), and the rows examined are those of [start, end) that exist;
\* end >= start holds exactly when start <= totalRows: a saved start index
\* larger than the number of rows gives end = totalRows < start.
C2_WindowEnd ==
  \A p \in Procs :
    inst[p].pc = "done" =>
      /\ Saved(inst[p]) = SpecEnd(inst[p])
      /\ inst[p].examined
           = Ascending({k \in 0..(Saved(inst[p]) - 1) : k >= inst[p].startIndex})
      /\ inst[p].startIndex <= Len(inst[p].rows) => Saved(inst[p]) >= inst[p].startIndex
      /\ inst[p].startIndex > Len(inst[p].rows) =>
           /\ Saved(inst[p]) = Len(inst[p].rows)
           /\ Saved(inst[p]) < inst[p].startIndex

\* a run whose saved start index was beyond the sheet
C2_Witness ==
  \E p \in Procs :
    /\ inst[p].pc = "done"
    /\ inst[p].startIndex > Len(inst[p].rows)
    /\ Saved(inst[p]) < inst[p].startIndex

(* -------------------------------- C3 ----------------------------------- *)
Blank(c) == c \in {" ", "\t"}

RECURSIVE Pow10(_)
Pow10(n) == IF n = 0 THEN 1 ELSE 10 * Pow10(n - 1)

RECURSIVE DigitSum(_, _, _)
\* the number written by the m digits of d that start at position from
DigitSum(d, from, m) ==
  IF m = 0 THEN 0
  ELSE DigitVal(d[from]) * Pow10(m - 1) + DigitSum(d, from + 1, m - 1)

\* d is: b blanks, sg (0 or 1) sign characters, m >= 1 digits, and then the
\* end or a symbol that is not a digit
IntPrefix(d, b, sg, m) ==
  /\ m >= 1 /\ b + sg + m <= Len(d)
  /\ \A j \in 1..b : Blank(d[j])
  /\ sg = 1 => d[b + 1] \in {"+", "-"}
  /\ \A j \in (b + sg + 1)..(b + sg + m) : IsDigit(d[j])
  /\ b + sg + m < Len(d) => ~IsDigit(d[b + sg + m + 1])

PrefixValue(d, b, sg, m) ==
  IF sg = 1 /\ d[b + 1] = "-" THEN 0 - DigitSum(d, b + sg + 1, m)
  ELSE DigitSum(d, b + sg + 1, m)

HasIntPrefix(d) ==
  \E b \in 0..Len(d), sg \in 0..1, m \in 1..Len(d) : IntPrefix(d, b, sg, m)

\* the content is a decimal integer and nothing else
IsInteger(d) ==
  \E sg \in 0..1, m \in 1..Len(d) : IntPrefix(d, 0, sg, m) /\ sg + m = Len(d)

IntegerValue(d) ==
  LET sg == IF d[1] \in {"+", "-"} THEN 1 ELSE 0
  IN PrefixValue(d, 0, sg, Len(d) - sg)

\* the progress file of the run as it was when the run began
File0(st) == st.files0[st.progressFile]

EndOfData(st) == FileOf(Sprintf_d(Len(st.rows)))

\* C4: a run that starts with start >= totalRows examines no row, makes no
\* generation, dispatch or sleep call, and saves totalRows; a run that
\* starts from the file so written starts at totalRows and leaves the file
\* as it found it.
C4_EndOfData ==
  \A p \in Procs :
    /\ (inst[p].pc \in AfterSetup /\ inst[p].startIndex >= Len(inst[p].rows)) =>
         /\ inst[p].examined = <<>> /\ inst[p].genRows = <<>>
         /\ inst[p].draftRows = <<>> /\ inst[p].sleepRows = <<>>
         /\ inst[p].count = 0
         /\ inst[p].pc = "done" =>
              /\ inst[p].writes[1].data = Sprintf_d(Len(inst[p].rows))
              /\ inst[p].writes[1].outcome = "ok" =>
                   /\ files[inst[p].progressFile] = EndOfData(inst[p])
                   /\ LoadStart(files[inst[p].progressFile]) = Len(inst[p].rows)
    /\ (inst[p].pc \in AfterLoad /\ File0(inst[p]) = EndOfData(inst[p])) =>
         /\ inst[p].startIndex = Len(inst[p].rows)
         /\ (inst[p].pc = "done" /\ inst[p].writes[1].outcome = "ok") =>
              files[inst[p].progressFile] = File0(inst[p])

\* a run that began at the end of the data an earlier run had saved (no
\* initial progress file of the model holds a number that large) and left
\* the file as it was
C4_Witness ==
  \E p \in Procs :
    /\ inst[p].pc = "done"
    /\ Len(inst[p].rows) >= 4
    /\ File0(inst[p]) = EndOfData(inst[p])
    /\ inst[p].startIndex = Len(inst[p].rows)
    /\ inst[p].examined = <<>>
    /\ inst[p].writes[1].outcome = "ok"
    /\ files[inst[p].progressFile] = File0(inst[p])

(* -------------------------------- C5 ----------------------------------- *)
\* the programs and modes whose loop replaces a failed paragraph
FallbackVariant(v, mode) ==
  v \in {"main", "part_000"} \/ (v = "part_001a" /\ mode = "initial")

GenericTopicLine ==
  <<"<p>I remain deeply interested in your ongoing research directions.</p>">>

Reached(st) ==
  {k \in RecipientRows(st) :
     k < st.i \/ (k = st.i /\ st.pc \in {"draft", "sleep"})}

\* C6: after a draft-creation failure the run goes on and ends without a
\* top-level error: every later row of the window that gives a recipient has
\* its generation attempted, and its dispatch and delay too (in the second
\* program of part_001 unless its own generation was reported failed).
C6_DraftFailureIsolated ==
  \A p \in Procs :
    (inst[p].buildFailed \/ inst[p].apiFailed) =>
      /\ inst[p].pc \in AfterSetup
      /\ inst[p].err = "nil"
      /\ inst[p].genRows = Ascending(Reached(inst[p]))
      /\ inst[p].draftRows
           = Ascending({k \in Reached(inst[p]) \ Rng(inst[p].skipRows) :
                          ~(k = inst[p].i /\ inst[p].pc = "draft")})
      /\ variant # "part_001b" => inst[p].skipRows = <<>>
      /\ inst[p].pc = "done" =>
           /\ inst[p].genRows = Ascending(RecipientRows(inst[p]))
           /\ inst[p].draftRows
                = Ascending(RecipientRows(inst[p]) \ Rng(inst[p].skipRows))
           /\ inst[p].sleepRows = inst[p].draftRows

\* an earlier draft failed at the mail service and a later one was created
C6_Witness ==
  \E p \in Procs :
    /\ inst[p].pc = "sleep"
    /\ inst[p].apiFailed
    /\ inst[p].count = 1
    /\ Len(inst[p].draftRows) >= 2
    /\ HasEv(inst[p].trace, "Drafts.Create", "ok")

(* -------------------------------- C7 ----------------------------------- *)
UnreadableAttachment == [ok |-> FALSE, data |-> <<>>]

C7_State ==
  \A p \in Procs :
    /\ inst[p].pc = "draft" =>
         buildRawEmail(variant, inst[p].rcp.email, inst[p].subject, inst[p].body,
                       UnreadableAttachment)
           = [raw |-> <<>>, err |-> "read attachment"]
    /\ HasEv(inst[p].trace, "build", "error") =>
         /\ inst[p].pc \in {"sleep", "loop"}
         /\ inst[p].pc = "sleep" => inst[p].raw = <<>>
         /\ ~HasOp(inst[p].trace, "Drafts.Create")
         /\ HasEv(inst[p].trace, "createDraft", "error")
         /\ HasEv(inst[p].trace, "log", "draft creation failed")
         /\ ~HasEv(inst[p].trace, "log", "draft created")
    /\ (inst[p].buildFailed /\ inst[p].pc = "done") =>
         inst[p].genRows = Ascending(RecipientRows(inst[p]))

C7_Step ==
  \A p \in Procs :
    /\ (inst[p].pc = "draft" /\ HasEv(inst'[p].trace, "build", "error")) =>
         /\ inst'[p].count = inst[p].count
         /\ inst'[p].pc = "sleep"
    /\ (inst[p].pc = "sleep" /\ inst'[p] # inst[p]) =>
         /\ inst'[p].pc = "loop"
         /\ inst'[p].i = inst[p].i + 1
         /\ inst'[p].count = inst[p].count

\* C7: when the attachment cannot be read, buildRawEmail returns an error
\* and an empty raw message, Users.Drafts.Create is not called for the
\* recipient, the recipient is logged as failed and not counted, and after
\* the delay the loop goes on with the next row.
C7_AttachmentUnreadable == [](C7_State) /\ [][C7_Step]_vars

\* after a recipient whose attachment could not be read (nothing counted),
\* the loop has reached the generation of the next recipient
C7_Witness ==
  \E p \in Procs :
    /\ inst[p].pc = "generate"
    /\ inst[p].buildFailed /\ ~inst[p].apiFailed
    /\ inst[p].count = 0
    /\ Len(inst[p].draftRows) = 1

(* -------------------------------- C8 ----------------------------------- *)
SetupOps ==
  {"godotenv.Load", "OPENAI_API_KEY", "OpenFile", "GetRows", "data rows",
   "getGmailService"}

\* C8: a setup error (the .env file or the API key missing, the workbook or
\* the sheet unreadable, at most one row, no mail client) ends the run with
\* an error before any recipient is processed: no row is examined, no
\* generation or draft call is made, the progress file is not written and
\* keeps its content; and no run gets past the setup with one of them.
C8_FatalSetup ==
  \A p \in Procs :
    /\ (\E k \in 1..Len(inst[p].trace) :
          inst[p].trace[k].op \in SetupOps /\ inst[p].trace[k].res = "error")
       => inst[p].pc = "fatal"
    /\ inst[p].pc = "fatal" =>
         /\ inst[p].err # "nil"
         /\ inst[p].examined = <<>> /\ inst[p].genRows = <<>>
         /\ inst[p].draftRows = <<>> /\ inst[p].sleepRows = <<>>
         /\ inst[p].count = 0
         /\ inst[p].writes = <<>>
         /\ files = inst[p].files0
    /\ inst[p].pc \in AfterLoad =>
         /\ inst[p].key
         /\ inst[p].sheet \in DOMAIN workbook
         /\ inst[p].rows = workbook[inst[p].sheet]
         /\ Len(inst[p].rows) > 1

\* the mail client could not be set up: the progress file had been read and
\* is left as it was
C8_Witness ==
  \E p \in Procs :
    /\ inst[p].pc = "fatal"
    /\ inst[p].err = "gmail auth"
    /\ inst[p].reads # <<>>
    /\ File0(inst[p]).exists
    /\ files = inst[p].files0

(* -------------------------------- C9 ----------------------------------- *)
NonBlank(s) == \E k \in 1..Len(s) : ~IsSpace(s[k])

\* s without its leading and trailing white space
Stripped(s) ==
  IF ~NonBlank(s) THEN <<>>
  ELSE LET ks == {k \in 1..Len(s) : ~IsSpace(s[k])}
           lo == CHOOSE k \in ks : \A j \in ks : k <= j
           hi == CHOOSE k \in ks : \A j \in ks : j <= k
       IN SubSeq(s, lo, hi)

HasColon(s) == \E k \in 1..Len(s) : s[k] = ":"

FirstColon(s) == CHOOSE k \in 1..Len(s) : s[k] = ":" /\ \A j \in 1..(k - 1) : s[j] # ":"

BeforeColon(s) == SubSeq(s, 1, FirstColon(s) - 1)

AfterColon(s) == SubSeq(s, FirstColon(s) + 1, Len(s))

\* the rows that give a recipient, as the specification words it
IsRecipientRow(row) ==
  /\ Len(row) >= 3
  /\ NonBlank(row[2]) /\ NonBlank(row[3])
  /\ HasColon(row[2])
  /\ NonBlank(BeforeColon(row[2])) /\ NonBlank(AfterColon(row[2]))

C9_State ==
  \A p \in Procs :
    /\ \A k \in 1..Len(inst[p].rows) :
         LET row == inst[p].rows[k]
             r == ExtractRecipient(row)
         IN /\ r.ok <=> IsRecipientRow(row)
            /\ r.ok => /\ r.name = Stripped(BeforeColon(row[2]))
                       /\ r.email = Stripped(AfterColon(row[2]))
                       /\ r.research = Stripped(row[3])
    /\ inst[p].pc \in {"generate", "draft"} =>
         /\ IsRecipientRow(inst[p].rows[inst[p].i + 1])
         /\ inst[p].rcp.name = Stripped(BeforeColon(inst[p].rows[inst[p].i + 1][2]))
         /\ inst[p].rcp.email = Stripped(AfterColon(inst[p].rows[inst[p].i + 1][2]))
    /\ \A k \in Rng(inst[p].genRows) \cup Rng(inst[p].draftRows)
                \cup Rng(inst[p].sleepRows) \cup Rng(inst[p].skipRows) :
         IsRecipientRow(inst[p].rows[k + 1])
    /\ inst[p].pc \in AfterSetup => inst[p].err = "nil"

C9_Step ==
  \A p \in Procs :
    ( /\ inst[p].pc = "loop"
      /\ inst[p].i < Len(inst[p].rows)
      /\ inst[p].startIndex <= inst[p].i /\ inst[p].i < inst[p].endIndex
      /\ ~IsRecipientRow(inst[p].rows[inst[p].i + 1])
      /\ inst'[p] # inst[p] ) =>
        /\ inst'[p].pc = "loop"
        /\ inst'[p].i = inst[p].i + 1
        /\ inst'[p].trace = <<>>
        /\ inst'[p].err = "nil"
        /\ inst'[p].examined = Append(inst[p].examined, inst[p].i)
        /\ inst'[p].genRows = inst[p].genRows
        /\ inst'[p].draftRows = inst[p].draftRows
        /\ inst'[p].sleepRows = inst[p].sleepRows
        /\ inst'[p].count = inst[p].count

\* C9: a row gives a recipient exactly when it has at least 3 columns,
\* columns 1 and 2 are non-empty after trimming, column 1 has a colon and
\* the texts before and after its first colon are non-empty after trimming;
\* the name is the trimmed text before the first colon, the email the
\* trimmed text after it (later colons stay in it).  Every other row of the
\* window is passed over without an error, a generation, a dispatch or a
\* delay.
C9_RowChecks == [](C9_State) /\ [][C9_Step]_vars

\* row 1 has a colon but nothing before or after it and was passed over
\* without a call; row 2 gives a recipient whose email keeps the second colon
C9_Witness ==
  \E p \in Procs :
    /\ inst[p].pc = "generate"
    /\ inst[p].i = 2
    /\ inst[p].examined = <<1, 2>>
    /\ inst[p].genRows = <<>> /\ inst[p].sleepRows = <<>>
    /\ Len(inst[p].rows[2]) >= 3
    /\ HasColon(inst[p].rows[2][2]) /\ NonBlank(inst[p].rows[2][2])
    /\ NonBlank(inst[p].rows[2][3])
    /\ ~IsRecipientRow(inst[p].rows[2])
    /\ inst[p].rcp.name = <<"c">>
    /\ inst[p].rcp.email = <<"d", ":", "e">>

(* -------------------------------- C10 ---------------------------------- *)
\* a header and n data rows that all give a recipient, n within the batch
\* size, and no progress file when the run started
SmallSheet(st) ==
  /\ ~File0(st).exists
  /\ Len(st.rows) - 1 <= maxDrafts(variant)
  /\ \A k \in 2..Len(st.rows) : ExtractRecipient(st.rows[k]).ok

\* C10: with no progress file and a sheet of a header and n rows that all
\* give a recipient, n <= maxDrafts, one run goes through each of the n
\* recipients once, in row order, and writes n + 1 (the number of rows) to
\* the progress file.
C10_WholeSheet ==
  \A p \in Procs :
    (inst[p].pc = "done" /\ SmallSheet(inst[p])) =>
      LET n == Len(inst[p].rows) - 1
      IN /\ inst[p].startIndex = 1
         /\ inst[p].examined = [k \in 1..n |-> k]
         /\ inst[p].genRows = [k \in 1..n |-> k]
         /\ inst[p].draftRows = Ascending((1..n) \ Rng(inst[p].skipRows))
         /\ inst[p].sleepRows = inst[p].draftRows
         /\ variant # "part_001b" => inst[p].skipRows = <<>>
         /\ Len(inst[p].writes) = 1
         /\ inst[p].writes[1].file = inst[p].progressFile
         /\ inst[p].writes[1].data = Sprintf_d(n + 1)
         /\ inst[p].writes[1].outcome = "ok" =>
              files[inst[p].progressFile] = FileOf(Sprintf_d(n + 1))

\* part_000, header and 2 rows, no progress file: both drafts created, 3
\* in the progress file
C10_Witness ==
  \E p \in Procs :
    /\ variant = "part_000"
    /\ inst[p].pc = "done"
    /\ SmallSheet(inst[p])
    /\ Len(inst[p].rows) = 3
    /\ inst[p].genRows = <<1, 2>>
    /\ inst[p].count = 2
    /\ files[inst[p].progressFile] = FileOf(<<"3">>)

(* -------------------------------- C11 ---------------------------------- *)
StrictlyIncreasing(q) == \A j, k \in 1..Len(q) : j < k => q[j] < q[k]

\* the steps of one recipient, in the order of the specification
StepOrder == <<"generate", "compose", "build", "Drafts.Create", "sleep">>

\* the place of an operation in that order, 0 for any other operation
Rank(op) ==
  CASE op = StepOrder[1] -> 1
    [] op = StepOrder[2] -> 2
    [] op = StepOrder[3] -> 3
    [] op = StepOrder[4] -> 4
    [] op = StepOrder[5] -> 5
    [] OTHER -> 0

\* the steps logged in a turn are logged once each and in that order
InStepOrder(tr) ==
  LET r == [j \in 1..Len(tr) |-> Rank(tr[j].op)]
  IN \A k \in 2..Len(tr) :
       r[k] > 0 => \A j \in 1..(k - 1) : r[j] < r[k]

C11_State ==
  \A p \in Procs :
    /\ StrictlyIncreasing(inst[p].examined)
    /\ StrictlyIncreasing(inst[p].genRows)
    /\ StrictlyIncreasing(inst[p].draftRows)
    /\ StrictlyIncreasing(inst[p].sleepRows)
    /\ InStepOrder(inst[p].trace)
    /\ inst[p].pc = "generate" =>
         /\ inst[p].trace = <<>>
         /\ inst[p].sleepRows = inst[p].draftRows
         /\ \A k \in Rng(inst[p].genRows) : k < inst[p].i
    /\ inst[p].pc = "draft" =>
         /\ inst[p].sleepRows = inst[p].draftRows
         /\ inst[p].genRows # <<>>
         /\ inst[p].genRows[Len(inst[p].genRows)] = inst[p].i
         /\ \A k \in Rng(inst[p].draftRows) : k < inst[p].i
         /\ HasOp(inst[p].trace, "compose") /\ ~HasOp(inst[p].trace, "build")
    /\ inst[p].pc = "sleep" =>
         /\ inst[p].draftRows = Append(inst[p].sleepRows, inst[p].i)
         /\ HasOp(inst[p].trace, "build") /\ ~HasOp(inst[p].trace, "sleep")
    /\ inst[p].pc \in {"loop", "save", "done"} =>
         /\ inst[p].sleepRows = inst[p].draftRows
         /\ \A k \in Rng(inst[p].genRows) : k < inst[p].i

C11_Step ==
  \A p \in Procs :
    /\ Len(inst'[p].genRows) > Len(inst[p].genRows) =>
         /\ inst[p].pc = "generate"
         /\ inst[p].sleepRows = inst[p].draftRows
         /\ inst'[p].genRows = Append(inst[p].genRows, inst[p].i)
    /\ Len(inst'[p].draftRows) > Len(inst[p].draftRows) =>
         /\ inst[p].pc = "draft"
         /\ inst'[p].draftRows = Append(inst[p].draftRows, inst[p].i)
    /\ Len(inst'[p].sleepRows) > Len(inst[p].sleepRows) =>
         /\ inst[p].pc = "sleep"
         /\ inst'[p].sleepRows = Append(inst[p].sleepRows, inst[p].i)
         /\ inst'[p].i = inst[p].i + 1

\* C11: within a run the recipients are gone through one after another in
\* increasing row order; the steps of one recipient happen in the order
\* generate, compose, build, dispatch, sleep; and the generation of a
\* recipient starts only when every earlier recipient that was dispatched
\* has had its sleep.
C11_Sequential == [](C11_State) /\ [][C11_Step]_vars

\* the third recipient of a run is about to be generated after two full turns
C11_Witness ==
  \E p \in Procs :
    /\ inst[p].pc = "generate"
    /\ Len(inst[p].sleepRows) = 2
    /\ inst[p].sleepRows = inst[p].genRows
    /\ inst[p].i > inst[p].sleepRows[2]

(* -------------------------------- C12 ---------------------------------- *)
C12_State ==
  \A p \in Procs :
    /\ inst[p].pc # "sleep" => inst[p].sleepRows = inst[p].draftRows
    /\ inst[p].pc = "sleep" =>
         /\ HasOp(inst[p].trace, "createDraft")
         /\ inst[p].draftRows = Append(inst[p].sleepRows, inst[p].i)
    /\ (HasOp(inst[p].trace, "createDraft") /\ inst[p].pc # "sleep") =>
         /\ inst[p].pc = "loop"
         /\ HasOp(inst[p].trace, "sleep")
    /\ inst[p].pc = "done" => Len(inst[p].sleepRows) = Len(inst[p].draftRows)

C12_Step ==
  \A p \in Procs :
    /\ (inst[p].pc = "draft" /\ inst'[p] # inst[p]) =>
         /\ inst'[p].pc = "sleep"
         /\ HasOp(inst'[p].trace, "createDraft")
         /\ inst'[p].i = inst[p].i
    /\ (inst[p].pc = "sleep" /\ inst'[p] # inst[p]) =>
         /\ HasOp(inst'[p].trace, "sleep")
         /\ inst'[p].examined = inst[p].examined
         /\ inst'[p].writes = inst[p].writes
         /\ files' = files
    /\ Len(inst'[p].examined) > Len(inst[p].examined) =>
         inst[p].sleepRows = inst[p].draftRows
    /\ Len(inst'[p].writes) > Len(inst[p].writes) =>
         inst[p].sleepRows = inst[p].draftRows

\* C12: every call of createDraft, failed or not, is followed by the delay
\* before the next row is examined or the progress file is written; two
\* calls of createDraft of a run always have a delay between them.
C12_DelayAfterDispatch == [](C12_State) /\ [][C12_Step]_vars

\* a failed createDraft has had its delay, after an earlier turn
C12_Witness ==
  \E p \in Procs :
    /\ inst[p].pc = "loop"
    /\ HasEv(inst[p].trace, "createDraft", "error")
    /\ HasOp(inst[p].trace, "sleep")
    /\ Len(inst[p].sleepRows) >= 2

(* -------------------------------- C13 ---------------------------------- *)
\* positions of the batch loop, from the setup to the end of the last turn
InLoop == {"loop", "generate", "draft", "sleep", "save"}

C13_State ==
  \A p \in Procs :
    /\ inst[p].pc \in {"idle", "open", "load"} =>
         inst[p].reads = <<>> /\ inst[p].writes = <<>>
    /\ inst[p].pc \in AfterLoad => inst[p].reads = <<inst[p].progressFile>>
    /\ inst[p].pc \in InLoop \cup {"auth"} =>
         /\ inst[p].writes = <<>>
         /\ files = inst[p].files0
         /\ LoadStart(files[inst[p].progressFile]) = inst[p].startIndex
    /\ inst[p].pc = "done" =>
         /\ Len(inst[p].writes) = 1
         /\ inst[p].writes[1].file = inst[p].progressFile
         /\ inst[p].genRows = Ascending(RecipientRows(inst[p]))
         /\ inst[p].sleepRows = inst[p].draftRows

C13_Step ==
  /\ \A p \in Procs :
       /\ Len(inst'[p].reads) > Len(inst[p].reads) =>
            /\ inst[p].pc = "load"
            /\ inst[p].examined = <<>> /\ inst[p].genRows = <<>>
       /\ Len(inst'[p].writes) > Len(inst[p].writes) =>
            /\ inst[p].pc = "save" /\ inst'[p].pc = "done"
            /\ \A k \in RecipientRows(inst[p]) : k < inst[p].i
  /\ files' # files =>
       \E p \in Procs : inst[p].pc = "save" /\ inst'[p].pc = "done"

\* C13: a run that passes the setup reads its progress file once, before
\* any row is examined, and writes it once, after the last recipient of the
\* window has had its turn; from the read to the write the file keeps the
\* content the run found, so a run that stops inside the loop leaves the old
\* start index.
C13_ReadOnceWriteOnce == [](C13_State) /\ [][C13_Step]_vars

\* inside the loop, two recipients done: the file still has what was read
C13_Witness ==
  \E p \in Procs :
    /\ inst[p].pc = "loop"
    /\ Len(inst[p].sleepRows) = 2
    /\ inst[p].count = 2
    /\ File0(inst[p]).exists
    /\ files[inst[p].progressFile] = File0(inst[p])
    /\ inst[p].reads = <<inst[p].progressFile>>
    /\ inst[p].writes = <<>>

(* -------------------------------- C14 ---------------------------------- *)
\* C14 as stated: for every content of the progress file the start index
\* of a run and the value it writes back are >= 1, and row 0, the header,
\* is never made a recipient, generated for or dispatched.
C14_Original ==
  \A p \in Procs :
    /\ inst[p].pc \in AfterLoad => inst[p].startIndex >= 1
    /\ \A k \in 1..Len(inst[p].writes) : Sscanf_d(inst[p].writes[k].data).val >= 1
    /\ 0 \notin Rng(inst[p].examined)
    /\ 0 \notin Rng(inst[p].genRows)
    /\ 0 \notin Rng(inst[p].draftRows)

\* a progress file holding 0 or a negative number: the header row has been
\* made a recipient and a draft was created for it
C14_Witness ==
  \E p \in Procs :
    /\ inst[p].pc = "sleep"
    /\ inst[p].startIndex < 1
    /\ inst[p].i = 0
    /\ inst[p].genRows = <<0>>
    /\ inst[p].draftRows = <<0>>
    /\ HasEv(inst[p].trace, "Drafts.Create", "ok")
    /\ inst[p].rcp = ExtractRecipient(inst[p].rows[1])

(* -------------------------------- C15 ---------------------------------- *)
\* the programs and modes whose generation function returns an error value
ReturnsError(v, mode) == FallbackVariant(v, mode) \/ v = "part_001b"

\* C15 as stated: generation returns a non-nil error both when the call
\* returns an error and when it returns no choice, and the caller never
\* goes on with an empty subject and body as if generation had succeeded.
C15_Original ==
  \A p \in Procs :
    /\ (inst[p].pc = "generate" /\ ReturnsError(variant, inst[p].mode)) =>
         \A resp \in Responses, k \in SubjectDraws :
           RespKind(resp) # "ok" =>
             generateStep(variant, inst[p].mode, inst[p].rcp, resp, k).err # "nil"
    /\ inst[p].pc \in {"draft", "sleep"} =>
         ~(inst[p].subject = <<>> /\ inst[p].body = <<>>)

\* second program of part_001: the call returned no choice, generateEmail
\* returned no error, and a draft with empty subject and body was created
C15_Witness ==
  \E p \in Procs :
    /\ variant = "part_001b"
    /\ inst[p].pc = "sleep"
    /\ HasEv(inst[p].trace, "generate", "no choices")
    /\ inst[p].subject = <<>> /\ inst[p].body = <<>>
    /\ HasEv(inst[p].trace, "Drafts.Create", "ok")
    /\ inst[p].count >= 1

(* -------------------------------- C16 ---------------------------------- *)
LastWrite(st) == st.writes[Len(st.writes)]

\* C16 as stated: the save replaces the content of the file by the decimal
\* string of the new index; a failed write leaves the run without error and
\* the count as it was, and the file with its old content, so that the next
\* run has the same start index.
C16_Original ==
  \A p \in Procs :
    inst[p].pc = "done" =>
      /\ inst[p].err = "nil"
      /\ LastWrite(inst[p]).data
           = Sprintf_d(NewProgress(inst[p].endIndex, Len(inst[p].rows)))
      /\ LastWrite(inst[p]).outcome = "ok" =>
           files[inst[p].progressFile] = FileOf(LastWrite(inst[p]).data)
      /\ LastWrite(inst[p]).outcome # "ok" =>
           /\ files[inst[p].progressFile] = File0(inst[p])
           /\ LoadStart(files[inst[p].progressFile]) = inst[p].startIndex

C16_State ==
  \A p \in Procs :
    inst[p].pc = "done" =>
      /\ inst[p].err = "nil"
      /\ LastWrite(inst[p]).data
           = Sprintf_d(NewProgress(inst[p].endIndex, Len(inst[p].rows)))
      /\ LastWrite(inst[p]).outcome = "ok" =>
           files[inst[p].progressFile] = FileOf(LastWrite(inst[p]).data)
      /\ LastWrite(inst[p]).outcome = "open failed" =>
           /\ files[inst[p].progressFile] = File0(inst[p])
           /\ LoadStart(files[inst[p].progressFile]) = inst[p].startIndex
      /\ LastWrite(inst[p]).outcome = "write failed" =>
           /\ files[inst[p].progressFile] = FileOf(<<>>)
           /\ LoadStart(files[inst[p].progressFile]) = 1
      /\ \A f \in DOMAIN files :
           f # inst[p].progressFile => files[f] = inst[p].files0[f]

C16_Step ==
  \A p \in Procs :
    (inst[p].pc = "save" /\ inst'[p] # inst[p]) =>
      /\ inst'[p].pc = "done"
      /\ inst'[p].err = "nil"
      /\ inst'[p].count = inst[p].count
      /\ inst'[p].draftRows = inst[p].draftRows

\* C16, amended: the save replaces the content of the file by the decimal
\* string of the new index; a failed write is not fatal (the run returns
\* without error, the count stays); after a failed write the file has its
\* old content when it could not be opened, and is empty when it was opened
\* and truncated but not written, and then the next run starts at 1.
C16_SaveProgress == [](C16_State) /\ [][C16_Step]_vars

\* a run that started at 2 and created a draft; the write failed after the
\* truncation, the file is empty
C16_Witness ==
  \E p \in Procs :
    /\ inst[p].pc = "done"
    /\ inst[p].startIndex = 2
    /\ inst[p].count >= 1
    /\ LastWrite(inst[p]).outcome = "write failed"
    /\ File0(inst[p]) = FileOf(<<"2">>)
    /\ files[inst[p].progressFile] = FileOf(<<>>)

(* -------------------------------- C17 ---------------------------------- *)
\* the arguments of the run, while the turn log still has the start of main
ArgsOf(st) == st.trace[1].arg

C17_State ==
  \A p \in Procs :
    /\ HasOp(inst[p].trace, "main") => inst[p].trace[1].op = "main"
    /\ ( /\ HasMode(variant)
         /\ HasOp(inst[p].trace, "main")
         /\ HasEv(inst[p].trace, "OPENAI_API_KEY", "ok") ) =>
           ( inst[p].mode = "followup" <=>
               (Len(ArgsOf(inst[p])) >= 1 /\ ArgsOf(inst[p])[1] = "followup") )
    /\ inst[p].mode \in {"initial", "followup"}
    /\ ~HasMode(variant) => inst[p].mode = "initial"
    /\ (HasMode(variant) /\ inst[p].pc \in AfterLoad) =>
         (inst[p].sheet = followUpSheetName <=> inst[p].mode = "followup")

C17_Step ==
  \A p \in Procs :
    inst'[p].mode # inst[p].mode => inst[p].pc \in {"idle", "done", "fatal"}

\* C17: in the programs that take a mode, the mode of a run is "followup"
\* exactly when the first positional argument is "followup"; with no
\* argument, with "initial" or with anything else it is "initial"; the mode
\* stays as it is for the whole run.
C17_Mode == [](C17_State) /\ [][C17_Step]_vars

\* an argument that differs from "followup" in case only: the run is an
\* initial run on the sheet of the initial mode
C17_Witness ==
  \E p \in Procs :
    /\ variant = "part_001a"
    /\ inst[p].pc = "auth"
    /\ HasOp(inst[p].trace, "main")
    /\ ArgsOf(inst[p]) = <<"Followup">>
    /\ inst[p].mode = "initial"
    /\ inst[p].sheet = sheetName(variant)

(* -------------------------------- C18 ---------------------------------- *)
Modes == {"initial", "followup"}

\* the modes the program has
ModesOf(v) == IF HasMode(v) THEN Modes ELSE {"initial"}

C18_State ==
  /\ \A m1, m2 \in ModesOf(variant) :
       m1 # m2 =>
         /\ SheetOf(variant, m1) # SheetOf(variant, m2)
         /\ ProgressFileOf(variant, m1) # ProgressFileOf(variant, m2)
  /\ \A p \in Procs :
       /\ inst[p].pc \in AfterLoad =>
            /\ inst[p].sheet = SheetOf(variant, inst[p].mode)
            /\ inst[p].progressFile = ProgressFileOf(variant, inst[p].mode)
            /\ inst[p].startIndex = LoadStart(inst[p].files0[inst[p].progressFile])
       /\ \A k \in 1..Len(inst[p].reads) : inst[p].reads[k] = inst[p].progressFile
       /\ \A k \in 1..Len(inst[p].writes) : inst[p].writes[k].file = inst[p].progressFile
       /\ inst[p].pc = "done" =>
            \A m \in ModesOf(variant) :
              m # inst[p].mode =>
                files[ProgressFileOf(variant, m)]
                  = inst[p].files0[ProgressFileOf(variant, m)]

C18_Step ==
  \A p \in Procs :
    inst'[p] # inst[p] =>
      \A f \in DOMAIN files :
        files'[f] # files[f] =>
          /\ f = inst[p].progressFile
          /\ f = ProgressFileOf(variant, inst[p].mode)
          /\ inst[p].pc = "save"

OneWindow(st) == Min(st.startIndex + maxDrafts(variant), Len(st.rows))

C19_State ==
  /\ \A p \in Procs :
       /\ inst[p].pc = "load" => ENABLED LoadProgress(p)
       /\ inst[p].pc = "save" => ENABLED SaveProgress(p)
       /\ inst[p].pc = "done" =>
            /\ inst[p].genRows = Ascending(RecipientRows(inst[p]))
            /\ inst[p].draftRows = inst[p].genRows
            /\ LastWrite(inst[p]).data = Sprintf_d(OneWindow(inst[p]))
  /\ \A p, q \in Procs :
       ( /\ p # q
         /\ inst[p].pc = "done" /\ inst[q].pc = "done"
         /\ inst[p].startIndex = inst[q].startIndex ) =>
           /\ inst[p].draftRows = inst[q].draftRows
           /\ LastWrite(inst[p]).data = LastWrite(inst[q]).data
           /\ (LastWrite(inst[p]).outcome = "ok" /\ LastWrite(inst[q]).outcome = "ok") =>
                files[inst[p].progressFile] = FileOf(Sprintf_d(OneWindow(inst[p])))

C19_Step ==
  \A p \in Procs :
    Len(inst'[p].reads) > Len(inst[p].reads) =>
      inst'[p].startIndex = LoadStart(files[inst[p].progressFile])

\* C19: two instances started on the same sheet and progress file are never
\* held back by each other: each reads the start index the file has at that
\* moment, dispatches every recipient of its window and writes the index
\* one window past its own start; so two instances that read the same start
\* index dispatch the same rows and leave the file one window, not two,
\* past that start.
C19_NoMutualExclusion == [](C19_State) /\ [][C19_Step]_vars

\* both instances started at row 1 and created a draft for each of the two
\* recipients of the same window; the file holds the index one window past the start although
\* the sheet has two windows of rows
C19_Witness ==
  /\ \A p \in Procs :
       /\ inst[p].pc = "done"
       /\ inst[p].startIndex = 1
       /\ inst[p].draftRows = <<1, 2>>
       /\ inst[p].count = 2
       /\ LastWrite(inst[p]).outcome = "ok"
       /\ Len(inst[p].rows) >= 1 + 2 * maxDrafts(variant)
       /\ files[inst[p].progressFile] = FileOf(Sprintf_d(1 + maxDrafts(variant)))

(* -------------------------------- C20 ---------------------------------- *)
\* the attachment file as the instance finds it
Attachment == files[attachmentPath].data

\* the lines the builder writes for the attachment, without their CRLF
Base64Lines(data) ==
  LET w == WriteLines(EncodeToString(data), 0)
  IN [k \in 1..Len(w) |-> SubSeq(w[k], 1, Len(w[k]) - 1)]

\* the number of base64 characters of n bytes
Base64Len(n) == 4 * ((n + 2) \div 3)

C20_State ==
  files[attachmentPath].exists =>
    LET w == WriteLines(EncodeToString(Attachment), 0)
        lines == Base64Lines(Attachment)
        n == Len(lines)
    IN /\ \A k \in 1..n : w[k][Len(w[k])] = "\r\n"
       /\ \A k \in 1..n : \A j \in 1..Len(lines[k]) : lines[k][j] # "\r\n"
       /\ \A k \in 1..(n - 1) : Len(lines[k]) = 76
       /\ n > 0 => (1 <= Len(lines[n]) /\ Len(lines[n]) <= 76)
       /\ Attachment = <<>> => n = 0
       /\ Flatten(lines) = EncodeToString(Attachment)
       /\ Len(EncodeToString(Attachment)) = Base64Len(Len(Attachment))
       /\ n = (Base64Len(Len(Attachment)) + 75) \div 76
       /\ \A p \in Procs :
            (inst[p].pc = "sleep" /\ HasEv(inst[p].trace, "build", "ok")) =>
              Contains(inst[p].raw,
                       <<"Content-Disposition: attachment; filename=\"UsamaShoukatCV.pdf\"\r\n\r\n">>
                       \o Flatten(w) \o <<"--", boundary, "--">>)

\* C20: the builder writes the base64 text of the attachment as lines of
\* exactly 76 characters, each ended by CRLF, the last one alone possibly
\* shorter; no line is empty, an empty attachment gives no line, and the
\* lines put together are the base64 encoding of the bytes of the attachment.
C20_Base64Lines == [](C20_State)

\* a message built with an attachment that takes a full line and a shorter one
C20_Witness ==
  \E p \in Procs :
    /\ inst[p].pc = "sleep"
    /\ HasEv(inst[p].trace, "build", "ok")
    /\ files[attachmentPath].exists
    /\ Len(Base64Lines(Attachment)) = 2
    /\ Len(Base64Lines(Attachment)[1]) = 76
    /\ Len(Base64Lines(Attachment)[2]) < 76
    /\ Base64Lines(Attachment)[2][Len(Base64Lines(Attachment)[2])] = "="

(* -------------------------------- C21 ---------------------------------- *)
\* a text without its CRLF line ends
IsNotCRLF(c) == c # "\r\n"

WithoutCRLF(t) == SelectSeq(t, IsNotCRLF)

IsBase64Char(c) == \E n \in 1..64 : encodeStd[n] = c

\* the 6-bit value of a character of the base64 alphabet
Dec(c) == (CHOOSE n \in 1..64 : encodeStd[n] = c) - 1

\* the number of "=" that end a text (at most 2 count as padding)
Padding(t) ==
  IF Len(t) >= 2 /\ t[Len(t)] = "=" /\ t[Len(t) - 1] = "=" THEN 2
  ELSE IF Len(t) >= 1 /\ t[Len(t)] = "=" THEN 1
  ELSE 0

\* the standard base64 decoding of a text: every 4 characters give 3 bytes,
\* a last group with one or two "=" gives 2 or 1 bytes; [ok, bytes]
DecodeString(t) ==
  LET pad == Padding(t)
      n == 3 * (Len(t) \div 4) - pad
      wellFormed ==
        /\ Len(t) % 4 = 0
        /\ \A k \in 1..(Len(t) - pad) : IsBase64Char(t[k])
        /\ pad = 1 => Dec(t[Len(t) - 1]) % 4 = 0
        /\ pad = 2 => Dec(t[Len(t) - 2]) % 16 = 0
      byte(k) ==
        LET g == 4 * ((k - 1) \div 3)
        IN CASE (k - 1) % 3 = 0 -> Dec(t[g + 1]) * 4 + Dec(t[g + 2]) \div 16
             [] (k - 1) % 3 = 1 -> (Dec(t[g + 2]) % 16) * 16 + Dec(t[g + 3]) \div 4
             [] OTHER -> (Dec(t[g + 3]) % 4) * 64 + Dec(t[g + 4])
  IN IF wellFormed THEN [ok |-> TRUE, bytes |-> [k \in 1..n |-> byte(k)]]
     ELSE [ok |-> FALSE, bytes |-> <<>>]

\* the attachment part of the message as the builder writes it
AttachmentText(data) == Flatten(WriteLines(EncodeToString(data), 0))

\* C21: for every attachment, the base64 lines the builder wrote, with their
\* CRLF line ends removed, decode to the bytes of the attachment.
C21_RoundTrip ==
  files[attachmentPath].exists =>
    /\ DecodeString(WithoutCRLF(AttachmentText(Attachment)))
         = [ok |-> TRUE, bytes |-> Attachment]
    /\ \A p \in Procs :
         (inst[p].pc = "sleep" /\ HasEv(inst[p].trace, "build", "ok")) =>
           Contains(inst[p].raw, AttachmentText(Attachment) \o <<"--", boundary, "--">>)

\* a message built with an attachment of two lines whose last group is
\* padded: the lines decode to the attachment
C21_Witness ==
  \E p \in Procs :
    /\ inst[p].pc = "sleep"
    /\ HasEv(inst[p].trace, "build", "ok")
    /\ files[attachmentPath].exists
    /\ Len(Attachment) > 57 /\ Len(Attachment) % 3 = 1
    /\ \E k \in 1..Len(Attachment) : Attachment[k] # 0
    /\ DecodeString(WithoutCRLF(AttachmentText(Attachment))).bytes = Attachment

(* -------------------------------- C22 ---------------------------------- *)
\* the document inside the outer encoding
Document(raw) == SubSeq(raw, 2, Len(raw) - 1)

\* the pieces of the builder that end with one or two CRLF, as the text
\* before them and the CRLF
Expand(sym) ==
  CASE sym = "MIME-Version: 1.0\r\n" -> <<"MIME-Version: 1.0", "\r\n">>
    [] sym = "Content-Type: text/html; charset=utf-8\r\n\r\n"
         -> <<"Content-Type: text/html; charset=utf-8", "\r\n", "\r\n">>
    [] sym = "Content-Type: application/pdf; name=\"UsamaShoukatCV.pdf\"\r\n"
         -> <<"Content-Type: application/pdf; name=\"UsamaShoukatCV.pdf\"", "\r\n">>
    [] sym = "Content-Transfer-Encoding: base64\r\n"
         -> <<"Content-Transfer-Encoding: base64", "\r\n">>
    [] sym = "Content-Disposition: attachment; filename=\"UsamaShoukatCV.pdf\"\r\n\r\n"
         -> <<"Content-Disposition: attachment; filename=\"UsamaShoukatCV.pdf\"",
              "\r\n", "\r\n">>
    [] OTHER -> <<sym>>

RECURSIVE Tokens(_)
Tokens(doc) == IF doc = <<>> THEN <<>> ELSE Expand(doc[1]) \o Tokens(Tail(doc))

\* the lines of a text: what stands between its CRLF
Lines(t) ==
  LET B == {k \in 1..Len(t) : t[k] = "\r\n"}
      n == Cardinality(B)
      brk(j) == IF j = 0 THEN 0
                ELSE IF j = n + 1 THEN Len(t) + 1
                ELSE CHOOSE k \in B : Cardinality({b \in B : b < k}) = j - 1
  IN [j \in 1..(n + 1) |-> SubSeq(t, brk(j - 1) + 1, brk(j) - 1)]

\* the first empty line of lines from..to of L, to + 1 when there is none
BlankFrom(L, from, to) ==
  IF \E j \in from..to : L[j] = <<>>
  THEN CHOOSE j \in from..to : L[j] = <<>> /\ \A i \in from..(j - 1) : L[i] # <<>>
  ELSE to + 1

\* the header lines of the entity that lines from..to of L hold
HeaderLines(L, from, to) == {L[j] : j \in from..(BlankFrom(L, from, to) - 1)}

OpeningDelimiter == <<"--", boundary>>

ClosingDelimiter == <<"--", boundary, "--">>

\* the opening delimiter lines of the body of a message
Openings(L) ==
  {j \in (BlankFrom(L, 1, Len(L)) + 1)..Len(L) : L[j] = OpeningDelimiter}

\* a multipart/mixed message of a text/html part and a base64 part, in
\* this order, closed by the closing delimiter with nothing after it
TwoPartMessage(doc) ==
  LET L == Lines(Tokens(doc))
      O == Openings(L)
  IN /\ BlankFrom(L, 1, Len(L)) <= Len(L)
     /\ <<"Content-Type: multipart/mixed; boundary=", boundary>>
          \in HeaderLines(L, 1, Len(L))
     /\ Cardinality(O) = 2
     /\ L[Len(L)] = ClosingDelimiter
     /\ \A o1, o2 \in O :
          o1 < o2 =>
            /\ <<"Content-Type: text/html; charset=utf-8">>
                 \in HeaderLines(L, o1 + 1, o2 - 1)
            /\ <<"Content-Transfer-Encoding: base64">>
                 \in HeaderLines(L, o2 + 1, Len(L) - 1)

Built(p) == inst[p].pc = "sleep" /\ HasEv(inst[p].trace, "build", "ok")

\* C22: every message the builder assembles, whatever the address, the
\* subject and the body are (a body or a header value with the boundary
\* token or a CRLF in it included), is a multipart/mixed message of exactly
\* two parts, text/html then base64, with exactly two opening delimiter
\* lines and the closing delimiter at its very end.
C22_Original ==
  \A p \in Procs : Built(p) => TwoPartMessage(Document(inst[p].raw))

\* a message built for a recipient whose name holds a delimiter line: the
\* document has three opening delimiter lines
C22_Witness ==
  \E p \in Procs :
    /\ Built(p)
    /\ Contains(inst[p].rcp.name, <<"\r\n">> \o OpeningDelimiter \o <<"\r\n">>)
    /\ Cardinality(Openings(Lines(Tokens(Document(inst[p].raw))))) = 3
    /\ Lines(Tokens(Document(inst[p].raw)))[Len(Lines(Tokens(Document(inst[p].raw))))]
         = ClosingDelimiter

(* -------------------------------- C23 ---------------------------------- *)
HtmlHeader == "Content-Type: text/html; charset=utf-8\r\n\r\n"

\* C23: in every built message the header of the text/html part is followed
\* by the body that was passed to the builder, symbol for symbol, then by
\* one CRLF, then by the delimiter of the next part.
C23_Original ==
  \A p \in Procs :
    Built(p) =>
      LET doc == Document(inst[p].raw)
          h == Index(doc, HtmlHeader)
          n == Len(inst[p].body)
      IN /\ h > 0
         /\ SubSeq(doc, h + 1, h + n) = inst[p].body
         /\ SubSeq(doc, h + n + 1, h + n + 4) = <<"\r\n", "--", boundary, "\r\n">>

\* a message built by part_000: its text/html part is the body with its
\* line feeds replaced, inside a wrapper, followed by two CRLF
C23_Witness ==
  \E p \in Procs :
    /\ Built(p)
    /\ variant = "part_000"
    /\ inst[p].body # <<>>
    /\ ReplaceAll_br(inst[p].body) # inst[p].body
    /\ Contains(Document(inst[p].raw),
                <<HtmlHeader, "<html><body>">> \o ReplaceAll_br(inst[p].body)
                  \o <<"</body></html>", "\r\n", "\r\n", "--">>)
    /\ ~Contains(Document(inst[p].raw), inst[p].body)

(* -------------------------------- C24 ---------------------------------- *)
\* the snippet that goes into the template, for a reply of the text
\* generation: the topics of generateEmail (part_001b), the topics of
\* getRelevantTopics (part_001a, follow-up), the paragraph or its fallback
SnippetOf(v, mode, rcp, resp) ==
  IF v = "part_001b"
  THEN IF resp.err \/ Len(resp.choices) = 0 THEN <<>>
       ELSE IF TrimSpace(resp.choices[1]) = <<>>
       THEN <<"computer science and related technologies">>
       ELSE TrimSpace(resp.choices[1])
  ELSE IF v = "part_001a" /\ mode = "followup" THEN getRelevantTopics(resp)
  ELSE IF generateResearchParagraph(resp).err # "nil" THEN Fallback(rcp.research)
  ELSE generateResearchParagraph(resp).text

\* a step of p that composes a message
Composes(p) == inst[p].pc = "generate" /\ inst'[p].pc = "draft"

\* whatever reply r and draw j the step composed with, a composition for
\* the same recipient and variant with the same snippet (a reply resp with
\* the snippet of r, any draw k) gives the subject and the body of the step
C24_Step ==
  \A p \in Procs :
    Composes(p) =>
      \A r \in Responses, resp \in Responses, j \in SubjectDraws, k \in SubjectDraws :
        LET g == generateStep(variant, inst[p].mode, inst[p].rcp, resp, k)
        IN ( /\ inst'[p] = generate(variant, inst[p], r, j)
             /\ SnippetOf(variant, inst[p].mode, inst[p].rcp, resp)
                  = SnippetOf(variant, inst[p].mode, inst[p].rcp, r)
             /\ g.go )
           => (g.subject = inst'[p].subject /\ g.body = inst'[p].body)

\* C24: composition is deterministic: of two compositions with the same
\* recipient name, the same snippet and the same template variant, the
\* second gives the subject and the body the first one gave.
C24_Original == [][C24_Step]_vars

\* part_001b has composed a message whose subject is the second of the
\* list; with the same reply the first of the list gives another subject
\* for the same body
C24_Witness ==
  \E p \in Procs :
    /\ variant = "part_001b"
    /\ inst[p].pc = "draft"
    /\ inst[p].body # <<>>
    /\ inst[p].subject = getRandomSubject(2)
    /\ \E resp \in Responses :
         LET g == generateEmail(variant, resp, 1, inst[p].rcp.name,
                                inst[p].rcp.research, inst[p].mode)
         IN g.err = "nil" /\ g.body = inst[p].body /\ g.subject # inst[p].subject

(* -------------------------------- C25 ---------------------------------- *)
\* the history of the runs of p, the run that has just ended included
History(p) == Fold(inst[p])

\* in how many complete runs row k was examined
SeenCount(p, k) ==
  IF k + 1 <= Len(History(p).seen) THEN History(p).seen[k + 1] ELSE 0

\* the start index the progress file gives now
Cursor == LoadStart(files[ProgressFileOf(variant, "initial")])

TotalRows == Len(workbook[sheetName(variant)])

\* the rows examined by the complete runs so far are the rows below the
\* cursor, each of them in one run, and no run has made more than batchSize
\* dispatch attempts
Partition(p) ==
  /\ SeenCount(p, 0) = 0
  /\ \A k \in 1..(TotalRows - 1) : SeenCount(p, k) = (IF k < Cursor THEN 1 ELSE 0)
  /\ Len(inst[p].draftRows) <= maxDrafts(variant)

Running == {"open", "load", "auth", "loop", "generate", "draft", "sleep", "save"}

Ended == {"done", "fatal"}

\* no run of p has had a setup error
NoSetupError(p) == History(p).on /\ History(p).setup

\* no run of p has had a setup error or a failed write of the cursor file
NoFailure(p) == NoSetupError(p) /\ History(p).saved

====
